---- MODULE Spec2Model ----
(***************************************************************************)
(* Cloud-connectivity core of the IoT device: the AliYunIot session (id    *)
(* generation, publish-result correlation, OTA orchestration through       *)
(* AliOTA) and the QuecThing session (publish-result queue).               *)
(*                                                                         *)
(* The module holds several specifications over one set of variables; each *)
(* specification exercises one component and leaves the variables of the   *)
(* other components in their state after construction.                     *)
(*   SpecIdConc, SpecIdSeq : AliYunIot.__get_id                            *)
(*   SpecCorr              : AliYunIot publish-result correlation          *)
(*                           (__put_post_res, __get_post_res, __ali_sub_cb,*)
(*                           post_data, ota_device_progress, ota_action)   *)
(*   SpecQuec              : QuecThing publish-result queue (post_data,    *)
(*                           __get_post_res, __put_post_res, __event_cb)   *)
(*   SpecOta               : AliOTA transfers (set_ota_info, start_ota,    *)
(*                           __start_sota, __start_fota and callbacks)     *)
(*   SpecFmt               : AliYunIot.__data_format                       *)
(***************************************************************************)
EXTENDS Integers, Sequences, FiniteSets, TLC

(***************************************************************************)
(* Bounds of the model.                                                    *)
(***************************************************************************)
\* length of the sequence one numiter() instance yields before StopIteration
NumIterLen == 4
\* number of threads calling into the session concurrently
NThreads == 3
\* number of __get_id calls followed in SpecIdSeq
MaxIdCalls == 6

\* largest number of messages one post_data builds in SpecCorr
MaxBatch == 2
\* number of post_data / ota_action calls and OTA announcements followed in
\* SpecCorr
MaxOps == 2

\* largest number of items in a record given to QuecThing.post_data
MaxItems == 2
\* number of reports QuecThing hands to quecIot in SpecQuec
MaxReports == 3

\* number of transfer threads followed in SpecOta
MaxTransfers == 2
\* number of announcements, cancellations and start requests followed in
\* SpecOta
MaxOtaOps == 3

\* "no id": msg_id not assigned (ids are naturals)
\* inbound messages that carry an id of the sender's choosing
MaxInbound == 17

\* blocks of the largest MCU image and of the largest archived file
MaxBlocks == 2

\* entries of an archive before the one that closes it
MaxEntries == 2

\* calls of AliYunIot.init
MaxInits == 3

\* calls of QuecObjectModel.set_item, and the largest wire id
MaxRegs == 3
MaxWireId == 3

NoId == -1
NoThread == 0
Threads == 1..NThreads

VARIABLES
    \* ---- AliYunIot.__get_id ------------------------------------------
    id_iter,      \* self.__id_iter: the next value the iterator yields;
                  \* NumIterLen when it is exhausted
    id_lock,      \* self.__id_lock: the thread holding it, or NoThread
    id_pc,        \* per thread: position inside __get_id
    id_cur,       \* per thread: the value read from the iterator (msg_id)
    id_ret,       \* per thread: the id returned by its last call, or NoId
    id_hist,      \* the ids returned so far, in the order they were drawn
    \* ---- AliYunIot publish-result correlation -------------------------
    post_res,     \* self.__post_res: msg_id -> stored result
    breack_flag,  \* self.__breack_flag
    ali_timer,    \* self.__ali_timer: TRUE while the one-shot timer is armed
    gps_read_lock,\* _gps_read_lock: the caller inside __get_post_res
    inflight,     \* ids of published messages the cloud has not answered
    c_pc,         \* per caller: position in post_data / ota_action
    c_op,         \* per caller: the operation in progress
    c_ids,        \* per caller: publish_data["msg_ids"] / msg_id
    c_k,          \* per caller: index of the message published / awaited
    c_ok,         \* per caller: no False among the results so far
    c_ret,        \* per caller: value returned by the operation
    c_log,        \* per caller: the messages handed to publish
    w_res,        \* per caller: what the last __get_post_res returned
    c_got,        \* per caller: the ids of its operation that an inbound
                  \* message has carried to __put_post_res (or that had a
                  \* stored result when they were issued)
    timer_pre,    \* how the current wait's timer fired: "none", "clean"
                  \* (no reply for the id was delivered before), "late"
    ann_since,    \* per caller: an announcement arrived since it cancelled
    ops,          \* operations started and announcements delivered
    \* ---- AliOTA pending image ------------------------------------------
    ota_module,   \* AliOTA.__module
    ota_version,  \* AliOTA.__version
    ota_files,    \* AliOTA.__files
    \* ---- QuecThing publish-result queue --------------------------------
    q_queue,      \* self.__post_result_wait_queue, oldest first; each result
                  \* with the report it was produced for and its producer
    q_timer,      \* self.__quec_timer: TRUE while the one-shot timer is armed
    q_pc,         \* position of the caller in post_data
    q_items,      \* the items of data the loop has not reached yet
    q_loc,        \* the local variable res of post_data
    q_rep,        \* number of reports handed to quecIot so far
    q_unacked,    \* reports the cloud has not acknowledged yet
    q_got,        \* the result taken from the queue by the current wait
    q_res,        \* what the last __get_post_res returned, and for which report
    q_ret,        \* value returned by post_data
    q_skipped,    \* kinds of key the current post_data passed over with continue
    q_evicted,    \* the results __put_post_res took out of the full queue
    \* ---- AliOTA transfers ----------------------------------------------
    o_ali,        \* AliOTA.__ali: "None" or "reporter"
    th_kind,      \* per transfer thread: "none", "sota" or "fota"
    th_pc,        \* per transfer thread: position in __start_sota/__start_fota
    th_files,     \* per transfer thread: the list object it iterates
    th_i,         \* per transfer thread: index of the part it is at
    th_up,        \* per transfer thread: parts for which __upgrade was invoked
    th_fail,      \* per transfer thread: the stage and part that failed
    th_cancel,    \* per transfer thread: the part it was downloading when
                  \* the upgrade was cancelled, or NoPart
    th_ret,       \* per transfer thread: value returned by __start_fota
    file_hash,    \* AliOTA.__file_hash: digest of the file last downloaded
    update_flag,  \* app_fota_download.set_update_flag() was called
    restarted,    \* Power.powerRestart() was called
    fota_queue,   \* AliOTA.__fota_queue
    ota_timer,    \* AliOTA.__ota_timer: TRUE while armed
    dl_active,    \* fota threads whose download may still call back
    o_reported,   \* step codes published through ota_device_progress
    act_ret,      \* outcome of AliYunIot.ota_action(1, module)
    o_ops,        \* announcements, cancellations and start requests so far
    \* ---- AliYunIot.__data_format -----------------------------------------
    om_props,     \* self.__object_model.items["properties"].keys()
    om_events,    \* self.__object_model.items["events"].keys()
    f_data,       \* the record given to __data_format, in iteration order
    f_pc,         \* "idle", or "done" once __data_format returned
    f_res,        \* what __data_format returned
    f_vals,       \* the values of the record, by key
    f_value,      \* the "value" entry of the params built for each key filed
    \* ---- QuecThing MCU image (SOTA) -------------------------------------
    s_pc,         \* position of __event_cb: "idle", or inside
                  \* __sota_upgrade_start ("loop", "end")
    s_file_size,  \* self.__file_size
    s_need,       \* need_download_size
    s_dl,         \* download_size
    s_seg,        \* the need_download_size the current call was given
    s_reads,      \* the readsize of each mcuFWDataRead of the current call
    s_total,      \* bytes streamed for the image since it was announced
    s_md5,        \* check_md5 for the image: "none", "ok", "bad"
    s_upd,        \* file_update for the image: "none", "ok", "bad"
    s_flag,       \* sota_set_flag() was called for the image
    s_note,       \* the image as it stood at the last power_restart notice

    \* ---- AliOTA.__upgrade ----------------------------------------------
    u_pc,         \* position in __upgrade: "off", "head", "file", "reg",
                  \* "except", "done"
    u_entries,    \* the entries the archive was built from
    u_stream,     \* the bytes unzipFp delivers
    u_pos,        \* bytes read from unzipFp so far
    u_dirs,       \* directories made under self.__updater_dir
    u_fs,         \* files written under self.__updater_dir: name -> bytes
    u_name,       \* file_name of the entry being written
    u_size,       \* size of the entry being written
    u_last,       \* last_size
    u_rs,         \* read_size
    u_reads,      \* the read_size of each read of the entry being written
    u_list,       \* file_list
    u_reg,        \* the entries handed to update_download_stat
    u_ret,        \* what __upgrade returned: "none", "True", "False", "raised"

    \* ---- AliYunIot.init -------------------------------------------------
    i_ali,        \* self.__ali: the current client, NoClient for None
    i_made,       \* clients created so far
    i_up,         \* the clients whose getAliyunSta() is 0
    i_subs,       \* per client, the topics subscribed on it, in order
    i_closed,     \* the clients close() has disconnected
    i_events,     \* the events of the registered object model
    i_calls,      \* calls of init so far
    i_enf,        \* enforce of the last call
    i_mqtt,       \* whether setMqtt of the last client made succeeded
    i_ret,        \* what the last call returned

    \* ---- QuecObjectModel ------------------------------------------------
    qm_props,     \* items["properties"]: key -> wire id, NoWire if absent
    qm_events,    \* items["events"]: key -> wire id, NoWire if absent
    items_id,     \* self.items_id: wire id -> key, NoKey if absent
    qm_regs,      \* calls of set_item so far
    qm_struct,    \* items[om_type][key]["struct_info"]: sub-field -> wire id
    e_k,          \* the k of the last call of QuecThing.__data_format
    e_v,          \* its v
    e_res,        \* what it returned
    ev_in,        \* the last event 5 message __event_cb was called with
    ev_out,       \* what the observers were last notified of
    ev_raised,    \* the last call of __event_cb raised

    \* ---- QuecThing.post_data and the caller's dictionary ----------------
    pd_pc,        \* position in post_data: "idle", "loop", "done"
    pd_orig,      \* data as the caller passed it
    pd_data,      \* data as it is now
    pd_left,      \* the items the loop has not reached yet
    pd_acked,     \* the keys whose report __get_post_res confirmed
    pd_ret,       \* res; "raised" when post_data raised

    \* ---- AliYunIot: the callback of the wait timer ----------------------
    ali_timer_cb, \* __ali_timer_cb was called and has not assigned yet

    \* ---- AliYunIot: the observers of an OTA plan ------------------------
    ob_plan,      \* the plan of the last notification
    ob_held,      \* the image AliOTA held while the observers ran
    st_ret,       \* what the last start_ota returned
    st_started    \* the last start_ota started a transfer thread

idVars == <<id_iter, id_lock, id_pc, id_cur, id_ret, id_hist>>

corrVars == <<post_res, breack_flag, ali_timer, gps_read_lock, inflight,
              c_pc, c_op, c_ids, c_k, c_ok, c_ret, c_log, c_got, w_res,
              timer_pre, ann_since, ops>>

imgVars == <<ota_module, ota_version, ota_files>>

quecVars == <<q_queue, q_timer, q_pc, q_items, q_loc, q_rep, q_unacked,
              q_got, q_res, q_ret, q_skipped, q_evicted>>

otaVars == <<o_ali, th_kind, th_pc, th_files, th_i, th_up, th_fail, th_cancel,
             th_ret, file_hash, update_flag, restarted, fota_queue, ota_timer,
             dl_active, o_reported, act_ret, o_ops>>

fmtVars == <<om_props, om_events, f_data, f_pc, f_res, f_vals, f_value>>

sotaVars == <<s_pc, s_file_size, s_need, s_dl, s_seg, s_reads, s_total, s_md5,
              s_upd, s_flag, s_note>>

upVars == <<u_pc, u_entries, u_stream, u_pos, u_dirs, u_fs, u_name, u_size,
            u_last, u_rs, u_reads, u_list, u_reg, u_ret>>

connVars == <<i_ali, i_made, i_up, i_subs, i_closed, i_events, i_calls, i_enf,
              i_mqtt, i_ret>>

omVars == <<qm_props, qm_events, items_id, qm_regs, qm_struct, e_k, e_v, e_res,
            ev_in, ev_out, ev_raised>>

pdVars == <<pd_pc, pd_orig, pd_data, pd_left, pd_acked, pd_ret>>

tmVars == <<ali_timer_cb>>

obVars == <<ob_plan, ob_held, st_ret, st_started>>

vars == <<idVars, corrVars, imgVars, quecVars, otaVars, fmtVars, sotaVars,
          upVars, connVars, omVars, pdVars, tmVars,
          obVars>>

(***************************************************************************)
(* usr.modules.common.numiter: a finite iterator of increasing numbers.    *)
(* A fresh instance starts at 0; next() of an exhausted instance raises    *)
(* StopIteration.                                                          *)
(***************************************************************************)
numiter == 0

numiter_exhausted(it) == it >= NumIterLen

(***************************************************************************)
(* AliYunIot.__init__: the id generator after construction.                *)
(***************************************************************************)
IdConstructed ==
    /\ id_iter = numiter
    /\ id_lock = NoThread
    /\ id_pc = [t \in Threads |-> "idle"]
    /\ id_cur = [t \in Threads |-> NoId]
    /\ id_ret = [t \in Threads |-> NoId]
    /\ id_hist = <<>>

(***************************************************************************)
(* AliYunIot.__get_id                                                      *)
(*     with self.__id_lock:                                                *)
(*         try: msg_id = next(self.__id_iter)                              *)
(*         except StopIteration:                                           *)
(*             self.__id_iter = numiter(); msg_id = next(self.__id_iter)   *)
(*     return str(msg_id)                                                  *)
(* str() is injective on the naturals; ids are kept as the numbers they    *)
(* render.                                                                 *)
(***************************************************************************)
\* a __get_id without the mutex: every caller enters at once
IdLockAvailable_nolock(t) == TRUE

\* `with self.__id_lock`: the caller enters when no thread holds the lock
IdLockAvailable(t) == id_lock = NoThread

GetId_Enter(t) ==
    /\ id_pc[t] = "idle"
    /\ IdLockAvailable(t)
    /\ id_lock' = t
    /\ id_pc' = [id_pc EXCEPT ![t] = "next"]
    /\ id_ret' = [id_ret EXCEPT ![t] = NoId]
    /\ UNCHANGED <<id_iter, id_cur, id_hist>>

\* next(self.__id_iter), first half: the value to yield is read.  On
\* StopIteration the iterator is replaced by a fresh numiter() first.
GetId_Next(t) ==
    /\ id_pc[t] = "next"
    /\ LET it == IF numiter_exhausted(id_iter) THEN numiter ELSE id_iter
       IN  /\ id_cur' = [id_cur EXCEPT ![t] = it]
           /\ id_iter' = it
    /\ id_pc' = [id_pc EXCEPT ![t] = "advance"]
    /\ UNCHANGED <<id_lock, id_ret, id_hist>>

\* next(self.__id_iter), second half: the iterator moves past the value.
GetId_Advance(t) ==
    /\ id_pc[t] = "advance"
    /\ id_iter' = id_cur[t] + 1
    /\ id_hist' = Append(id_hist, id_cur[t])
    /\ id_pc' = [id_pc EXCEPT ![t] = "exit"]
    /\ UNCHANGED <<id_lock, id_cur, id_ret>>

\* leaving the with block releases the lock; return str(msg_id)
GetId_Return(t) ==
    /\ id_pc[t] = "exit"
    /\ id_lock' = IF id_lock = t THEN NoThread ELSE id_lock
    /\ id_ret' = [id_ret EXCEPT ![t] = id_cur[t]]
    /\ id_pc' = [id_pc EXCEPT ![t] = "done"]
    /\ UNCHANGED <<id_iter, id_cur, id_hist>>

\* the thread calls __get_id again
GetId_Again(t) ==
    /\ id_pc[t] = "done"
    /\ Len(id_hist) + Cardinality({u \in Threads : id_pc[u] \notin {"idle", "done"}})
         < MaxIdCalls
    /\ id_pc' = [id_pc EXCEPT ![t] = "idle"]
    /\ UNCHANGED <<id_iter, id_lock, id_cur, id_ret, id_hist>>

(***************************************************************************)
(* AliYunIot publish-result correlation.                                   *)
(***************************************************************************)
\* the threads that call post_data / ota_action on the session
Callers == {"a", "b"}
NoCaller == "none"

\* the ids an inbound message can carry: 0..NumIterLen-1 are the ids the
\* session issues, NumIterLen is an id only the cloud uses
AllIds == 0..NumIterLen

\* reply codes (data["code"])
CodeOk == 200
CodeOtaOk == 1000
Codes == {CodeOk, CodeOtaOk}

\* who wrote a stored result: the id field of an inbound message, or the
\* poll loop after the timer fired
TimerSrc == -2

\* self.__post_res.get(msg_id) is None
Absent == [set |-> FALSE, res |-> FALSE, by |-> NoId]

\* wait not performed
NoWait == [id |-> NoId, set |-> FALSE, res |-> FALSE, by |-> NoId,
           to |-> "none", got |-> FALSE]

\* AliOTA.__init__: no pending image
EmptyFiles == <<>>

OtaImageConstructed ==
    /\ ota_module = ""
    /\ ota_version = ""
    /\ ota_files = EmptyFiles

\* the images the cloud announces: data["module"], data["version"], and
\* data["files"] (or the single url/size/md5) as set_ota_info receives them
Images ==
    { [module |-> "mcu", version |-> "2.0",
       files |-> << [size |-> 1, url |-> "u1", md5 |-> "m1"],
                    [size |-> 2, url |-> "u2", md5 |-> "m2"] >>],
      [module |-> "fw", version |-> "3.0",
       files |-> << [size |-> 3, url |-> "u3", md5 |-> "m3"] >>] }

\* AliYunIot.__init__
\* keys: the ids that the messages of the run can carry
CorrConstructedOver(keys) ==
    /\ post_res = [i \in keys |-> Absent]
    /\ breack_flag = 0
    /\ ali_timer = FALSE
    /\ gps_read_lock = NoCaller
    /\ inflight = {}
    /\ c_pc = [t \in Callers |-> "idle"]
    /\ c_op = [t \in Callers |-> "none"]
    /\ c_ids = [t \in Callers |-> <<>>]
    /\ c_k = [t \in Callers |-> 1]
    /\ c_ok = [t \in Callers |-> TRUE]
    /\ c_ret = [t \in Callers |-> "none"]
    /\ c_log = [t \in Callers |-> <<>>]
    /\ w_res = [t \in Callers |-> NoWait]
    /\ c_got = [t \in Callers |-> {}]
    /\ timer_pre = "none"
    /\ ann_since = [t \in Callers |-> FALSE]
    /\ ops = 0

CorrConstructed == CorrConstructedOver(AllIds)

\* __get_id as one step (the mutex makes it atomic, see SpecIdConc): the id
\* drawn and the iterator after the call
IssuedId == IF numiter_exhausted(id_iter) THEN numiter ELSE id_iter

IssueId ==
    /\ id_iter' = IssuedId + 1
    /\ UNCHANGED <<id_lock, id_pc, id_cur, id_ret, id_hist>>

\* AliYunIot.__put_post_res: self.__post_res[msg_id] = res
\* (by: the id field of the message that carried res)
PutPostRes(pr, msg_id, res, by) ==
    [pr EXCEPT ![msg_id] = [set |-> TRUE, res |-> res, by |-> by]]

\* AliOTA.set_ota_info
set_ota_info(module, version, files) ==
    /\ ota_module' = module
    /\ ota_version' = version
    /\ ota_files' = files

\* the id the caller publishes / awaits
CurId(t) == c_ids[t][c_k[t]]

\* ota_action(0): desc of the cancellation report
CancelDesc == "User cancels upgrade."

(***************************************************************************)
(* AliYunIot.post_data                                                     *)
(***************************************************************************)
\* the first k values __get_id returns from iterator state it, in order
RECURSIVE IdsFrom(_, _)
IdsFrom(it, k) ==
    IF k = 0 THEN <<>>
    ELSE LET v == IF numiter_exhausted(it) THEN numiter ELSE it
         IN  <<v>> \o IdsFrom(v + 1, k - 1)

\* the iterator after k calls of __get_id
RECURSIVE IterAfter(_, _)
IterAfter(it, k) ==
    IF k = 0 THEN it
    ELSE IterAfter((IF numiter_exhausted(it) THEN numiter ELSE it) + 1, k - 1)

Range(q) == {q[i] : i \in 1..Len(q)}

\* the ids of q for which __post_res holds a result
Stored(q) == {i \in Range(q) : post_res[i].set}

\* publish_data = self.__data_format(data): k messages are built, each with
\* msg_id = self.__get_id()
PostData_Format(t, k) ==
    /\ c_pc[t] = "idle"
    /\ ops < MaxOps
    /\ ops' = ops + 1
    /\ c_op' = [c_op EXCEPT ![t] = "post"]
    /\ c_ids' = [c_ids EXCEPT ![t] = IdsFrom(id_iter, k)]
    /\ id_iter' = IterAfter(id_iter, k)
    /\ c_got' = [c_got EXCEPT ![t] = Stored(IdsFrom(id_iter, k))]
    /\ c_pc' = [c_pc EXCEPT ![t] = "pub"]
    /\ UNCHANGED <<post_res, breack_flag, ali_timer, gps_read_lock, inflight,
                   c_k, c_ok, c_ret, c_log, w_res, timer_pre,
                   ann_since, imgVars,
                   id_lock, id_pc, id_cur, id_ret, id_hist>>

\* for item in publish_data["property"] / ["event"]:
\*     self.__ali.publish(topic, ujson.dumps(item), qos=0)
\* The results are not looked at.  sent: the messages the transport
\* delivered to the cloud.
\* pub_res = [self.__get_post_res(msg_id) for msg_id in publish_data["msg_ids"]]
\* return True if False not in pub_res else False   (no message: True)
PostData_Publish(t, sent) ==
    /\ c_pc[t] = "pub"
    /\ sent \subseteq Range(c_ids[t])
    /\ inflight' = inflight \cup sent
    /\ c_log' = [c_log EXCEPT ![t] =
                   [i \in 1..Len(c_ids[t]) |->
                       [topic |-> "post", id |-> c_ids[t][i], step |-> 0, desc |-> ""]]]
    /\ IF c_ids[t] = <<>>
       THEN /\ c_pc' = [c_pc EXCEPT ![t] = "done"]
            /\ c_ret' = [c_ret EXCEPT ![t] = "True"]
       ELSE /\ c_pc' = [c_pc EXCEPT ![t] = "w_start"]
            /\ c_ret' = c_ret
    /\ UNCHANGED <<post_res, breack_flag, ali_timer, gps_read_lock,
                   c_op, c_ids, c_k, c_ok, c_got, w_res, timer_pre,
                   ann_since, ops, idVars, imgVars>>

\* what can go wrong inside the try block of post_data:
\*   AttributeError  self.__object_model or self.__ali is still None
\*   TypeError       ujson.dumps(item) of a value that is not serialisable
\*   OSError         self.__ali.publish raising on a broken session
\*   KeyError        self.__post_res.pop(msg_id) of a key that is gone
PostFaults == {"AttributeError", "TypeError", "OSError", "KeyError"}

\* an except clause that names OSError only
Caught_oserror(fault) == fault = "OSError"

\* except Exception:
Caught(fault) == fault \in PostFaults

\* except Exception: log.error(... % (data.get("topic"), data.get("data")))
\* return False
\* what post_data gives its caller when fault is raised inside the try block
PostDataExcept(fault) == IF Caught(fault) THEN "False" ELSE fault

\* publish_data = self.__data_format(data) raises at the first key:
\* self.__object_model is None before set_object_model, no id is drawn
PostData_FormatRaise(t) ==
    /\ c_pc[t] = "idle"
    /\ ops < MaxOps
    /\ ops' = ops + 1
    /\ c_op' = [c_op EXCEPT ![t] = "post"]
    /\ c_pc' = [c_pc EXCEPT ![t] = "done"]
    /\ c_ret' = [c_ret EXCEPT ![t] = PostDataExcept("AttributeError")]
    /\ UNCHANGED <<post_res, breack_flag, ali_timer, gps_read_lock, inflight,
                   c_ids, c_k, c_ok, c_log, c_got, w_res, timer_pre,
                   ann_since, idVars, imgVars>>

\* the publish loops raise: publish number j of the batch raises fault, the
\* messages before it were handed to the transport, which delivered those of
\* sent; no wait is made.  With self.__ali None (not connected) it is the
\* first publish that raises.
PostData_PublishRaise(t) ==
    /\ c_pc[t] = "pub"
    /\ \E j \in 1..Len(c_ids[t]), fault \in PostFaults \ {"KeyError"} :
         \E sent \in SUBSET {c_ids[t][i] : i \in 1..(j - 1)} :
            /\ fault = "AttributeError" => j = 1
            /\ inflight' = inflight \cup sent
            /\ c_log' = [c_log EXCEPT ![t] =
                           [i \in 1..(j - 1) |->
                               [topic |-> "post", id |-> c_ids[t][i], step |-> 0, desc |-> ""]]]
            /\ c_ret' = [c_ret EXCEPT ![t] = PostDataExcept(fault)]
    /\ c_pc' = [c_pc EXCEPT ![t] = "done"]
    /\ UNCHANGED <<post_res, breack_flag, ali_timer, gps_read_lock,
                   c_op, c_ids, c_k, c_ok, c_got, w_res, timer_pre,
                   ann_since, ops, idVars, imgVars>>

(***************************************************************************)
(* AliYunIot.__get_post_res(msg_id), under @option_lock(_gps_read_lock)    *)
(***************************************************************************)
\* a call that starts whoever holds the lock
WaitLockAvailable_nolock(t) == TRUE

\* option_lock: the call starts when no other call holds _gps_read_lock
WaitLockAvailable(t) == gps_read_lock = NoCaller

\* self.__ali_timer.start(1000 * 10, 0, self.__ali_timer_cb)
W_Start(t) ==
    /\ c_pc[t] = "w_start"
    /\ WaitLockAvailable(t)
    /\ gps_read_lock' = t
    /\ ali_timer' = TRUE
    /\ timer_pre' = "none"
    /\ c_pc' = [c_pc EXCEPT ![t] = "w_check"]
    /\ UNCHANGED <<post_res, breack_flag, inflight, c_op, c_ids, c_k, c_ok,
                   c_ret, c_log, c_got, w_res, ann_since, ops,
                   idVars, imgVars>>

\* while self.__post_res.get(msg_id) is None:
W_Check(t) ==
    /\ c_pc[t] = "w_check"
    /\ c_pc' = [c_pc EXCEPT ![t] = IF post_res[CurId(t)].set THEN "w_fin" ELSE "w_flag"]
    /\ UNCHANGED <<post_res, breack_flag, ali_timer, gps_read_lock, inflight,
                   c_op, c_ids, c_k, c_ok, c_ret, c_log, c_got, w_res,
                   timer_pre, ann_since, ops, idVars, imgVars>>

\*     if self.__breack_flag: self.__post_res[msg_id] = False; break
\*     utime.sleep_ms(50)
W_Flag(t) ==
    /\ c_pc[t] = "w_flag"
    /\ IF breack_flag # 0
       THEN /\ post_res' = [post_res EXCEPT ![CurId(t)] =
                               [set |-> TRUE, res |-> FALSE, by |-> TimerSrc]]
            /\ c_pc' = [c_pc EXCEPT ![t] = "w_fin"]
       ELSE /\ post_res' = post_res
            /\ c_pc' = [c_pc EXCEPT ![t] = "w_check"]
    /\ UNCHANGED <<breack_flag, ali_timer, gps_read_lock, inflight,
                   c_op, c_ids, c_k, c_ok, c_ret, c_log, c_got, w_res,
                   timer_pre, ann_since, ops, idVars, imgVars>>

\* a pop that takes the result stored under the smallest id, whatever id
\* is awaited
PopKey_oldest(t) ==
    IF \E i \in AllIds : post_res[i].set
    THEN CHOOSE i \in AllIds : post_res[i].set /\ \A j \in AllIds : post_res[j].set => i <= j
    ELSE CurId(t)

\* res = self.__post_res.pop(msg_id): the key popped
PopKey(t) == CurId(t)

\* a return that leaves the timer and the flag as they are
WaitCleanup_none ==
    /\ ali_timer' = ali_timer
    /\ breack_flag' = breack_flag

\* self.__ali_timer.stop(); self.__breack_flag = 0
WaitCleanup ==
    /\ ali_timer' = FALSE
    /\ breack_flag' = 0

\* self.__ali_timer.stop(); self.__breack_flag = 0;
\* res = self.__post_res.pop(msg_id); return res  (the lock is released)
\* After the last wait of the operation the operation returns:
\*   post_data: True if False not in pub_res else False
\*   ota_device_progress: the result of the wait
W_Finish(t) ==
    /\ c_pc[t] = "w_fin"
    /\ WaitCleanup
    /\ timer_pre' = "none"
    /\ gps_read_lock' = IF gps_read_lock = t THEN NoCaller ELSE gps_read_lock
    /\ LET e == post_res[PopKey(t)]
       IN  IF e.set
           THEN /\ post_res' = [post_res EXCEPT ![PopKey(t)] = Absent]
                /\ w_res' = [w_res EXCEPT ![t] =
                               [id |-> CurId(t), set |-> TRUE, res |-> e.res,
                                by |-> e.by, to |-> timer_pre,
                                got |-> CurId(t) \in c_got[t]]]
                /\ c_ok' = [c_ok EXCEPT ![t] = @ /\ e.res]
                /\ IF c_k[t] < Len(c_ids[t])
                   THEN /\ c_k' = [c_k EXCEPT ![t] = @ + 1]
                        /\ c_pc' = [c_pc EXCEPT ![t] = "w_start"]
                        /\ c_ret' = c_ret
                   ELSE /\ c_k' = c_k
                        /\ c_pc' = [c_pc EXCEPT ![t] = "done"]
                        /\ c_ret' = [c_ret EXCEPT ![t] =
                                       IF c_ok[t] /\ e.res THEN "True" ELSE "False"]
           ELSE \* pop of a missing key raises KeyError: post_data catches
                \* it and returns False, ota_device_progress lets it through
                /\ post_res' = post_res
                /\ w_res' = [w_res EXCEPT ![t] = [NoWait EXCEPT !.id = CurId(t)]]
                /\ c_ok' = c_ok
                /\ c_k' = c_k
                /\ c_ret' = [c_ret EXCEPT ![t] =
                               IF c_op[t] = "post" THEN PostDataExcept("KeyError") ELSE "KeyError"]
                /\ c_pc' = [c_pc EXCEPT ![t] = "done"]
    /\ UNCHANGED <<inflight, c_op, c_ids, c_log, c_got,
                   ann_since, ops, idVars, imgVars>>

\* AliYunIot.__ali_timer_cb: self.__breack_flag = 1
TimerFire ==
    /\ ali_timer
    /\ ali_timer' = FALSE
    /\ breack_flag' = 1
    /\ timer_pre' = IF /\ gps_read_lock # NoCaller
                       /\ CurId(gps_read_lock) \notin c_got[gps_read_lock]
                    THEN "clean" ELSE "late"
    /\ UNCHANGED <<post_res, gps_read_lock, inflight, c_pc, c_op, c_ids, c_k,
                   c_ok, c_ret, c_log, c_got, w_res, ann_since, ops,
                   idVars, imgVars>>

(***************************************************************************)
(* The timer of __get_post_res and its callback, step by step.  The timer  *)
(* of self.__ali_timer.start(1000 * 10, 0, self.__ali_timer_cb) is         *)
(* one-shot: at its expiry it is no longer armed and __ali_timer_cb is     *)
(* called in the timer's context, which holds no lock of the waiting       *)
(* thread.  The callback's assignment is a step of that context.           *)
(***************************************************************************)
TimerConstructed == ali_timer_cb = FALSE

\* the timer expires: __ali_timer_cb(args) is called
Timer_Expire ==
    /\ ali_timer
    /\ ~ali_timer_cb
    /\ ali_timer' = FALSE
    /\ ali_timer_cb' = TRUE
    /\ UNCHANGED <<post_res, breack_flag, gps_read_lock, inflight, c_pc, c_op,
                   c_ids, c_k, c_ok, c_ret, c_log, c_got, w_res, timer_pre,
                   ann_since, ops, idVars, imgVars>>

\* __ali_timer_cb: self.__breack_flag = 1
Timer_Cb ==
    /\ ali_timer_cb
    /\ ali_timer_cb' = FALSE
    /\ breack_flag' = 1
    /\ timer_pre' = IF /\ gps_read_lock # NoCaller
                       /\ CurId(gps_read_lock) \notin c_got[gps_read_lock]
                    THEN "clean" ELSE "late"
    /\ UNCHANGED <<post_res, ali_timer, gps_read_lock, inflight, c_pc, c_op,
                   c_ids, c_k, c_ok, c_ret, c_log, c_got, w_res, ann_since,
                   ops, idVars, imgVars>>

\* the caller goes on to its next call
Op_Again(t) ==
    /\ c_pc[t] = "done"
    /\ ops < MaxOps
    /\ c_pc' = [c_pc EXCEPT ![t] = "idle"]
    /\ c_op' = [c_op EXCEPT ![t] = "none"]
    /\ c_ids' = [c_ids EXCEPT ![t] = <<>>]
    /\ c_k' = [c_k EXCEPT ![t] = 1]
    /\ c_ok' = [c_ok EXCEPT ![t] = TRUE]
    /\ c_ret' = [c_ret EXCEPT ![t] = "none"]
    /\ c_log' = [c_log EXCEPT ![t] = <<>>]
    /\ c_got' = [c_got EXCEPT ![t] = {}]
    /\ w_res' = [w_res EXCEPT ![t] = NoWait]
    /\ ann_since' = [ann_since EXCEPT ![t] = FALSE]
    /\ UNCHANGED <<post_res, breack_flag, ali_timer, gps_read_lock, inflight,
                   timer_pre, ops, idVars, imgVars>>

(***************************************************************************)
(* AliYunIot.ota_action(0, module), module non-empty:                      *)
(*     self.__ota.set_ota_info("", "", [])                                 *)
(*     return self.ota_device_progress(step=-1,                            *)
(*                desc="User cancels upgrade.", module=module)             *)
(***************************************************************************)
\* a cancellation that leaves the pending image in place
CancelClear_keep == UNCHANGED imgVars

\* self.__ota.set_ota_info("", "", [])
CancelClear == set_ota_info("", "", EmptyFiles)

Cancel_Begin(t) ==
    /\ c_pc[t] = "idle"
    /\ ops < MaxOps
    /\ ops' = ops + 1
    /\ CancelClear
    /\ c_op' = [c_op EXCEPT ![t] = "cancel"]
    /\ ann_since' = [ann_since EXCEPT ![t] = FALSE]
    /\ c_pc' = [c_pc EXCEPT ![t] = "prog"]
    /\ UNCHANGED <<post_res, breack_flag, ali_timer, gps_read_lock, inflight,
                   c_ids, c_k, c_ok, c_ret, c_log, c_got, w_res, timer_pre,
                   idVars>>

\* ota_device_progress(step, desc, module):
\*     msg_id = self.__get_id()
\*     publish_res = self.__ali.publish(self.ota_topic_device_progress, ...)
\*     if publish_res: return self.__get_post_res(msg_id)
\*     else: return False
Progress_Publish(t, sent) ==
    /\ c_pc[t] = "prog"
    /\ IssueId
    /\ c_ids' = [c_ids EXCEPT ![t] = <<IssuedId>>]
    /\ c_got' = [c_got EXCEPT ![t] = Stored(<<IssuedId>>)]
    /\ inflight' = IF sent THEN inflight \cup {IssuedId} ELSE inflight
    /\ c_log' = [c_log EXCEPT ![t] =
                   Append(@, [topic |-> "progress", id |-> IssuedId, step |-> -1,
                              desc |-> CancelDesc])]
    /\ c_ok' = [c_ok EXCEPT ![t] = sent]
    /\ IF sent
       THEN /\ c_pc' = [c_pc EXCEPT ![t] = "w_start"]
            /\ c_ret' = c_ret
       ELSE /\ c_pc' = [c_pc EXCEPT ![t] = "done"]
            /\ c_ret' = [c_ret EXCEPT ![t] = "False"]
    /\ UNCHANGED <<post_res, breack_flag, ali_timer, gps_read_lock,
                   c_op, c_k, w_res, timer_pre,
                   ann_since, ops, imgVars>>

(***************************************************************************)
(* AliYunIot.__ali_sub_cb, called by the transport for an inbound message  *)
(***************************************************************************)
\* the ids of c that a message with id field id answers
GotNow(c, id) == [t \in Callers |-> IF id \in Range(c_ids[t]) THEN c[t] \cup {id} ELSE c[t]]

\* topic.endswith("/post_reply"):
\*     self.__put_post_res(data["id"], True if data["code"] == 200 else False)
\* The cloud answers a message it received.
SubCb_PostReply(id, code) ==
    /\ id \in inflight
    /\ inflight' = inflight \ {id}
    /\ post_res' = PutPostRes(post_res, id, code = CodeOk, id)
    /\ c_got' = GotNow(c_got, id)
    /\ UNCHANGED <<breack_flag, ali_timer, gps_read_lock, c_pc, c_op, c_ids,
                   c_k, c_ok, c_ret, c_log, w_res, timer_pre, ann_since, ops,
                   idVars, imgVars>>

\* topic.startswith("/ota/device/upgrade/"): the cloud announces an image
\* under an id of its own choosing
\*     self.__put_post_res(data["id"], True if int(data["code"]) == 1000 else False)
\*     if int(data["code"]) == 1000: if data.get("data"):
\*         notifyObservers(...); self.__ota.set_ota_info(module, version, files)
SubCb_Upgrade(id, code, img) ==
    /\ ops < MaxOps
    /\ ops' = ops + 1
    /\ post_res' = PutPostRes(post_res, id, code = CodeOtaOk, id)
    /\ c_got' = GotNow(c_got, id)
    /\ IF code = CodeOtaOk
       THEN /\ set_ota_info(img.module, img.version, img.files)
            /\ ann_since' = [t \in Callers |-> ann_since[t] \/ c_op[t] = "cancel"]
       ELSE UNCHANGED <<imgVars, ann_since>>
    /\ UNCHANGED <<breack_flag, ali_timer, gps_read_lock, inflight, c_pc, c_op,
                   c_ids, c_k, c_ok, c_ret, c_log, w_res, timer_pre, idVars>>

\* topic.endswith("/thing/file/download_reply"):
\*     self.__put_post_res(data["id"], True if int(data["code"]) == 200 else False)
\*     if data["code"] == 200: self.notifyObservers(self, *("ota_file_download", data["data"]))
\* The id is the sender's: no publish of the device has to precede it.
SubCb_DownloadReply(id, code) ==
    /\ id \in DOMAIN post_res
    /\ post_res' = PutPostRes(post_res, id, code = CodeOk, id)
    /\ c_got' = GotNow(c_got, id)
    /\ UNCHANGED <<breack_flag, ali_timer, gps_read_lock, inflight, c_pc, c_op,
                   c_ids, c_k, c_ok, c_ret, c_log, w_res, timer_pre, ann_since,
                   ops, idVars, imgVars>>

(***************************************************************************)
(* QuecThing: the publish-result queue.  Results carry no report id: the   *)
(* queue is filled by __event_cb (event 4) and by the timer callback and   *)
(* drained by the wait that follows each report of post_data.              *)
(***************************************************************************)
\* Queue(maxsize=16) and the eviction threshold of __put_post_res
QueueMax == 16

\* the kinds of item in the record given to post_data:
\*   "om"      a declared key with a value (quecIot.phymodelReport)
\*   "om_none" a declared key whose value is None (continue)
\*   "gps"     key "gps" (quecIot.locReportOutside)
\*   "non_gps" key "non_gps" (quecIot.locReportInside)
\*   "unknown" any other undeclared key (continue)
QItemKinds == {"om", "om_none", "gps", "non_gps", "unknown"}
\* a loop that reports every key of the record
QReportKinds_all == QItemKinds

QReportKinds == {"om", "gps", "non_gps"}

RECURSIVE SeqsUpTo(_, _)
\* the sequences over S of length at most n
SeqsUpTo(S, n) ==
    IF n = 0 THEN {<<>>}
    ELSE LET shorter == SeqsUpTo(S, n - 1)
         IN  shorter \cup {Append(q, x) : q \in {r \in shorter : Len(r) = n - 1}, x \in S}

QRecords == SeqsUpTo(QItemKinds, MaxItems)

NoQRes == [res |-> FALSE, of |-> 0, src |-> "none"]
NoQWait == [set |-> FALSE, rep |-> 0, res |-> FALSE, of |-> 0, src |-> "none"]

\* QuecThing.__init__; queue: the results waiting in the queue
QuecConstructedWith(queue) ==
    /\ q_queue = queue
    /\ q_timer = FALSE
    /\ q_pc = "idle"
    /\ q_items = <<>>
    /\ q_loc = TRUE
    /\ q_rep = 0
    /\ q_unacked = {}
    /\ q_got = NoQRes
    /\ q_res = NoQWait
    /\ q_ret = "none"
    /\ q_skipped = {}
    /\ q_evicted = {}

QuecConstructed == QuecConstructedWith(<<>>)

\* a put that never takes anything out of the queue
QuecPutPostRes_noevict(q, e) == Append(q, e)

\* QuecThing.__put_post_res(res):
\*     if self.__post_result_wait_queue.size() >= 16: self.__post_result_wait_queue.get()
\*     self.__post_result_wait_queue.put(res)
QuecPutPostRes(q, e) ==
    IF Len(q) >= QueueMax THEN Append(Tail(q), e) ELSE Append(q, e)

\* what the put takes out: the result at the head of a full queue
QuecEvicted(q) == IF Len(q) >= QueueMax THEN {Head(q)} ELSE {}

\* post_data(data): res = True; for k, v in data.items(): ...
Q_PostData(items) ==
    /\ q_pc = "idle"
    /\ q_items' = items
    /\ q_loc' = TRUE
    /\ q_ret' = "none"
    /\ q_pc' = "loop"
    /\ UNCHANGED <<q_queue, q_timer, q_rep, q_unacked, q_got, q_res>>
    /\ q_skipped' = {}
    /\ UNCHANGED q_evicted

\* om_data is not False and v is None: continue;  undeclared key that is
\* neither "gps" nor "non_gps": v = {}; continue
Q_Skip ==
    /\ q_pc = "loop"
    /\ q_items # <<>>
    /\ Head(q_items) \notin QReportKinds
    /\ q_items' = Tail(q_items)
    /\ UNCHANGED <<q_queue, q_timer, q_pc, q_loc, q_rep, q_unacked,
                   q_got, q_res, q_ret>>
    /\ q_skipped' = q_skipped \cup {Head(q_items)}
    /\ UNCHANGED q_evicted

\* quecIot.phymodelReport / locReportOutside / locReportInside:
\*     if not ..._res: res = False; break
\* otherwise the wait follows
Q_Report(ok) ==
    /\ q_pc = "loop"
    /\ q_items # <<>>
    /\ Head(q_items) \in QReportKinds
    /\ ok => q_rep < MaxReports
    /\ IF ok
       THEN /\ q_rep' = q_rep + 1
            /\ q_unacked' = q_unacked \cup {q_rep + 1}
            /\ q_pc' = "w_start"
            /\ UNCHANGED <<q_items, q_loc>>
       ELSE /\ q_loc' = FALSE
            /\ q_items' = <<>>
            /\ UNCHANGED <<q_rep, q_unacked, q_pc>>
    /\ UNCHANGED <<q_queue, q_timer, q_got, q_res, q_ret>>
    /\ UNCHANGED <<q_skipped, q_evicted>>

\* __get_post_res: self.__quec_timer.start(1000 * 10, 0, self.__quec_timer_cb)
Q_WaitStart ==
    /\ q_pc = "w_start"
    /\ q_timer' = TRUE
    /\ q_res' = NoQWait
    /\ q_pc' = "w_get"
    /\ UNCHANGED <<q_queue, q_items, q_loc, q_rep, q_unacked, q_got, q_ret>>
    /\ UNCHANGED <<q_skipped, q_evicted>>

\* res = self.__post_result_wait_queue.get(): blocks while the queue is empty
Q_WaitGet ==
    /\ q_pc = "w_get"
    /\ q_queue # <<>>
    /\ q_got' = Head(q_queue)
    /\ q_queue' = Tail(q_queue)
    /\ q_pc' = "w_stop"
    /\ UNCHANGED <<q_timer, q_items, q_loc, q_rep, q_unacked, q_res,
                   q_ret>>
    /\ UNCHANGED <<q_skipped, q_evicted>>

\* self.__quec_timer.stop(); return res;  then in post_data:
\*     res = self.__get_post_res()
\*     if res: v = {}    else: res = False; break
Q_WaitStop ==
    /\ q_pc = "w_stop"
    /\ q_timer' = FALSE
    /\ q_res' = [set |-> TRUE, rep |-> q_rep, res |-> q_got.res,
                 of |-> q_got.of, src |-> q_got.src]
    /\ q_got' = NoQRes
    /\ q_loc' = q_got.res
    /\ q_items' = IF q_got.res THEN Tail(q_items) ELSE <<>>
    /\ q_pc' = "loop"
    /\ UNCHANGED <<q_queue, q_rep, q_unacked, q_ret>>
    /\ UNCHANGED <<q_skipped, q_evicted>>

\* end of the loop: self.__rm_empty_data(data); return res
Q_Return ==
    /\ q_pc = "loop"
    /\ q_items = <<>>
    /\ q_ret' = IF q_loc THEN "True" ELSE "False"
    /\ q_pc' = "done"
    /\ UNCHANGED <<q_queue, q_timer, q_items, q_loc, q_rep, q_unacked,
                   q_got, q_res>>
    /\ UNCHANGED <<q_skipped, q_evicted>>

\* the caller is ready for its next post_data
Q_Again ==
    /\ q_pc = "done"
    /\ q_pc' = "idle"
    /\ q_ret' = "none"
    /\ q_res' = NoQWait
    /\ UNCHANGED <<q_queue, q_timer, q_items, q_loc, q_rep, q_unacked, q_got>>
    /\ q_skipped' = {}
    /\ UNCHANGED q_evicted

\* QuecThing.__quec_timer_cb: self.__put_post_res(False); the timer is
\* one-shot and was armed by the wait for report q_rep
Q_TimerCb ==
    /\ q_timer
    /\ q_timer' = FALSE
    /\ q_queue' = QuecPutPostRes(q_queue, [res |-> FALSE, of |-> q_rep, src |-> "timer"])
    /\ UNCHANGED <<q_pc, q_items, q_loc, q_rep, q_unacked, q_got, q_res,
                   q_ret>>
    /\ q_evicted' = q_evicted \cup QuecEvicted(q_queue)
    /\ UNCHANGED q_skipped

\* QuecThing.__event_cb, event 4: errcode 10200/10210/10220 puts True,
\* 10300/10310/10320 puts False; the cloud acknowledges report r
Q_EventAck(r, ok) ==
    /\ r \in q_unacked
    /\ q_unacked' = q_unacked \ {r}
    /\ q_queue' = QuecPutPostRes(q_queue, [res |-> ok, of |-> r, src |-> "ack"])
    /\ UNCHANGED <<q_timer, q_pc, q_items, q_loc, q_rep, q_got, q_res,
                   q_ret>>
    /\ q_evicted' = q_evicted \cup QuecEvicted(q_queue)
    /\ UNCHANGED q_skipped

(***************************************************************************)
(* QuecThing: the MCU image (SOTA).  Event 7/10701 announces the size and  *)
(* the MD5 of the image, each event 7/10703 hands over a segment, which    *)
(* __event_cb streams to SOTA().write_update_data by calling               *)
(* __sota_upgrade_start itself.                                            *)
(***************************************************************************)
\* readsize = 4096
SotaBlock == 4096

\* the sizes the cloud declares: around the multiples of the block size
SotaSizes ==
    {n \in {k * SotaBlock + d : k \in 0..MaxBlocks, d \in {-1, 0, 1}} : n >= 1}

NoNote == [set |-> FALSE, total |-> 0, size |-> 0, md5 |-> "none",
           upd |-> "none", flag |-> FALSE]

\* QuecThing.__init__: self.__file_size = 0; self.__md5_value = ""
SotaConstructed ==
    /\ s_pc = "idle"
    /\ s_file_size = 0
    /\ s_need = 0
    /\ s_dl = 0
    /\ s_seg = 0
    /\ s_reads = <<>>
    /\ s_total = 0
    /\ s_md5 = "none"
    /\ s_upd = "none"
    /\ s_flag = FALSE
    /\ s_note = NoNote

\* __event_cb, event 7, errcode 10701 with event data:
\*     self.__sota_download_info(int(file_info[1]), file_info[2])
Ev_10701(size) ==
    /\ s_pc = "idle"
    /\ s_file_size' = size
    /\ s_total' = 0
    /\ s_md5' = "none"
    /\ s_upd' = "none"
    /\ s_flag' = FALSE
    /\ s_note' = NoNote
    /\ UNCHANGED <<s_pc, s_need, s_dl, s_seg, s_reads>>

\* __event_cb, event 7, errcode 10703 with event data:
\*     self.__sota_upgrade_start(int(file_info[2]), int(file_info[3]))
\*         download_size = 0; sota_mode = SOTA()
\* The segment lies inside the image announced.
Ev_10703(need) ==
    /\ s_pc = "idle"
    /\ s_file_size > 0
    /\ s_total + need <= s_file_size
    /\ s_need' = need
    /\ s_seg' = need
    /\ s_dl' = 0
    /\ s_reads' = <<>>
    /\ s_pc' = "loop"
    /\ UNCHANGED <<s_file_size, s_total, s_md5, s_upd, s_flag, s_note>>

\* a loop that asks for a whole block at every pass
ReadSize_whole(need) == SotaBlock

\* readsize = 4096; if (readsize > need_download_size): readsize = need_download_size
ReadSize(need) == IF SotaBlock > need THEN need ELSE SotaBlock

\* a loop that sets the flag whatever the two checks return
FlagSet_unchecked(md5ok, updok) == TRUE

\* if sota_mode.check_md5(...): if sota_mode.file_update(): sota_set_flag()
FlagSet(md5ok, updok) == md5ok /\ updok

\* while need_download_size != 0: one pass of the loop
\*     updateFile = quecIot.mcuFWDataRead(start_addr, readsize)
\*     sota_mode.write_update_data(updateFile)
\*     need_download_size -= readsize; download_size += readsize
\*     if (download_size == self.__file_size):
\*         self.ota_action(3)
\*         if sota_mode.check_md5(self.__md5_value):
\*             if sota_mode.file_update(): sota_mode.sota_set_flag()
\*         break
\*     else: self.ota_action(2)
\* md5ok, updok: what check_md5 and file_update answer
S_Block(md5ok, updok) ==
    /\ s_pc = "loop"
    /\ s_need # 0
    /\ LET readsize == ReadSize(s_need)
       IN  /\ s_reads' = Append(s_reads, readsize)
           /\ s_need' = s_need - readsize
           /\ s_dl' = s_dl + readsize
           /\ s_total' = s_total + readsize
           /\ IF s_dl + readsize = s_file_size
              THEN /\ s_md5' = IF md5ok THEN "ok" ELSE "bad"
                   /\ s_upd' = IF ~md5ok THEN "none" ELSE IF updok THEN "ok" ELSE "bad"
                   /\ s_flag' = (s_flag \/ FlagSet(md5ok, updok))
                   /\ s_pc' = "end"
              ELSE /\ UNCHANGED <<s_md5, s_upd, s_flag>>
                   /\ s_pc' = IF s_need - readsize = 0 THEN "end" ELSE "loop"
    /\ UNCHANGED <<s_file_size, s_seg, s_note>>

\* after the loop:
\*     res_data = ("object_model", [("power_restart", 1)])
\*     self.notifyObservers(self, *res_data)
\* and __event_cb returns
S_Notify ==
    /\ s_pc = "end"
    /\ s_note' = [set |-> TRUE, total |-> s_total, size |-> s_file_size,
                  md5 |-> s_md5, upd |-> s_upd, flag |-> s_flag]
    /\ s_pc' = "idle"
    /\ UNCHANGED <<s_file_size, s_need, s_dl, s_seg, s_reads, s_total, s_md5,
                   s_upd, s_flag>>

(***************************************************************************)
(* AliOTA.__upgrade: the archive as uzlib.DecompIO delivers it.            *)
(*                                                                         *)
(* A byte is a one-character string, NUL the zero byte.  The stream is     *)
(* built from entries the way the archive format lays them out: a header   *)
(* of HeaderLen bytes (name in bytes 0..99, size as ASCII octal in bytes   *)
(* 124..134) followed by the payload.                                      *)
(***************************************************************************)
NUL == "NUL"

HeaderLen == 512
UnzipBlock == 512
NameLen == 100
SizeAt == 124
SizeEnd == 135

OctDigits == <<"0", "1", "2", "3", "4", "5", "6", "7">>

Min(a, b) == IF a <= b THEN a ELSE b

\* n zero bytes
Zeros(n) == [i \in 1..n |-> NUL]

\* the Python slice data[a:b]
Slice(data, a, b) ==
    IF a + 1 > Min(b, Len(data)) THEN <<>> ELSE SubSeq(data, a + 1, Min(b, Len(data)))

\* str.rstrip("\0")
RECURSIVE RStrip(_)
RStrip(s) ==
    IF s = <<>> THEN <<>>
    ELSE IF s[Len(s)] = NUL THEN RStrip(SubSeq(s, 1, Len(s) - 1)) ELSE s

\* int(size, 8) accepts the text
IsOctal(s) == \A i \in 1..Len(s) : \E d \in 1..8 : OctDigits[d] = s[i]

\* a parser that reads the size field as decimal text
RECURSIVE OctVal_decimal(_)
OctVal_decimal(s) ==
    IF s = <<>> THEN 0
    ELSE 10 * OctVal_decimal(SubSeq(s, 1, Len(s) - 1))
         + ((CHOOSE d \in 1..8 : OctDigits[d] = s[Len(s)]) - 1)

\* int(size, 8)
RECURSIVE OctVal(_)
OctVal(s) ==
    IF s = <<>> THEN 0
    ELSE 8 * OctVal(SubSeq(s, 1, Len(s) - 1))
         + ((CHOOSE d \in 1..8 : OctDigits[d] = s[Len(s)]) - 1)

\* __get_file_size(data) raises: int(size, 8) rejects the text (ValueError)
get_file_size_raises(data) ==
    LET size == RStrip(data)
    IN  Len(size) # 0 /\ ~IsOctal(size)

\* __get_file_size(data)
get_file_size(data) ==
    LET size == RStrip(data)
    IN  IF Len(size) = 0 THEN 0 ELSE OctVal(size)

\* __get_file_name(name)
get_file_name(name) == RStrip(name)

\* n in w octal digits, as the archive writer formats a size field
RECURSIVE ToOctal(_, _)
ToOctal(n, w) ==
    IF w = 0 THEN <<>> ELSE Append(ToOctal(n \div 8, w - 1), OctDigits[(n % 8) + 1])

\* the header of an entry: name field, size field, NUL elsewhere
Header(name, sizefield) ==
    name \o Zeros(NameLen - Len(name)) \o Zeros(SizeAt - NameLen)
         \o sizefield \o Zeros(HeaderLen - SizeEnd)

\* the payload of a file entry of the given size
Hello == <<"h", "e", "l", "l", "o">>
Payload(name, size) == [i \in 1..size |-> Hello[((i + Len(name)) % 5) + 1]]

DirName == <<"s", "u", "b", "/">>
FileName == <<"s", "u", "b", "/", "a", ".", "t", "x", "t">>
OtherName == <<"b">>

\* the payload sizes of the file entries: the sizes around the block
\* boundaries, and the five bytes of a short text
UnzipSizes ==
    {5} \cup {n \in {k * UnzipBlock + d : k \in 0..MaxBlocks, d \in {-1, 0, 1}} : n >= 1}

\* the entries of an archive: a directory, a file of each size, a second
\* file of one byte, the end marker, and a file entry whose size field is
\* not octal text
Entries ==
    [kind : {"dir"}, name : {DirName}, size : {0}]
        \cup [kind : {"file"}, name : {FileName}, size : UnzipSizes]
        \cup [kind : {"file"}, name : {OtherName}, size : {1}]
        \cup [kind : {"end"}, name : {<<>>}, size : {0}]
        \cup [kind : {"bad"}, name : {OtherName}, size : {0}]

EntryBytes(e) ==
    CASE e.kind = "dir"  -> Header(e.name, ToOctal(0, SizeEnd - SizeAt))
      [] e.kind = "file" -> Header(e.name, ToOctal(e.size, SizeEnd - SizeAt))
                                \o Payload(e.name, e.size)
      [] e.kind = "end"  -> Zeros(HeaderLen)
      [] e.kind = "bad"  -> Header(e.name, <<"9">> \o Zeros(SizeEnd - SizeAt - 1))

RECURSIVE StreamOf(_)
StreamOf(es) == IF es = <<>> THEN <<>> ELSE EntryBytes(Head(es)) \o StreamOf(Tail(es))

\* "/usr/" + file_name
UsrPath(file_name) == <<"/", "u", "s", "r", "/">> \o file_name

UnpackConstructed ==
    /\ u_pc = "off"
    /\ u_entries = <<>>
    /\ u_stream = <<>>
    /\ u_pos = 0
    /\ u_dirs = {}
    /\ u_fs = <<>>
    /\ u_name = <<>>
    /\ u_size = 0
    /\ u_last = 0
    /\ u_rs = 0
    /\ u_reads = <<>>
    /\ u_list = <<>>
    /\ u_reg = <<>>
    /\ u_ret = "none"

\* __upgrade() is entered with the downloaded archive es:
\*     unzipFp = uzlib.DecompIO(ota_file, -15); file_list = []
UnpackEntered(es) ==
    /\ u_pc = "head"
    /\ u_entries = es
    /\ u_stream = StreamOf(es)
    /\ u_pos = 0
    /\ u_dirs = {}
    /\ u_fs = <<>>
    /\ u_name = <<>>
    /\ u_size = 0
    /\ u_last = 0
    /\ u_rs = 0
    /\ u_reads = <<>>
    /\ u_list = <<>>
    /\ u_reg = <<>>
    /\ u_ret = "none"

\* unzipFp.read(n): the next n bytes, fewer at the end of the stream
UnzipRead(n) == Slice(u_stream, u_pos, u_pos + n)

\* one pass of "while True": data = unzipFp.read(0x200), the two fields,
\* then the directory, the end of the archive or the opening of the file
U_Header ==
    /\ u_pc = "head"
    /\ LET data == UnzipRead(HeaderLen)
           field == Slice(data, SizeAt, SizeEnd)
           size == get_file_size(field)
           file_name == get_file_name(Slice(data, 0, NameLen))
       IN  /\ u_pos' = u_pos + Len(data)
           /\ IF data = <<>>
              THEN /\ u_pc' = "reg"
                   /\ UNCHANGED <<u_dirs, u_fs, u_name, u_size, u_last, u_rs, u_reads>>
              ELSE IF get_file_size_raises(field)
              THEN /\ u_pc' = "except"
                   /\ UNCHANGED <<u_dirs, u_fs, u_name, u_size, u_last, u_rs, u_reads>>
              ELSE IF size = 0
              THEN /\ u_pc' = IF Len(file_name) # 0 THEN "head" ELSE "reg"
                   /\ u_dirs' = IF Len(file_name) # 0 THEN u_dirs \cup {file_name}
                                ELSE u_dirs
                   /\ UNCHANGED <<u_fs, u_name, u_size, u_last, u_rs, u_reads>>
              ELSE /\ u_pc' = "file"
                   /\ u_fs' = [n \in DOMAIN u_fs \cup {file_name} |->
                                 IF n = file_name THEN <<>> ELSE u_fs[n]]
                   /\ u_name' = file_name
                   /\ u_size' = size
                   /\ u_last' = size
                   /\ u_rs' = UnzipBlock
                   /\ u_reads' = <<>>
                   /\ UNCHANGED u_dirs
    /\ UNCHANGED <<u_entries, u_stream, u_list, u_reg, u_ret>>

\* one pass of "while last_size > 0"; when the loop ends the file is
\* closed and file_list.append({"file_name": "/usr/" + file_name, "size": size})
U_Block ==
    /\ u_pc = "file"
    /\ u_last > 0
    /\ LET read_size == IF u_rs <= u_last THEN u_rs ELSE u_last
           data == UnzipRead(read_size)
       IN  /\ u_rs' = read_size
           /\ u_reads' = Append(u_reads, read_size)
           /\ u_pos' = u_pos + Len(data)
           /\ u_fs' = [u_fs EXCEPT ![u_name] = @ \o data]
           /\ u_last' = u_last - read_size
           /\ IF u_last - read_size > 0
              THEN /\ u_pc' = "file"
                   /\ UNCHANGED u_list
              ELSE /\ u_pc' = "head"
                   /\ u_list' = Append(u_list, [file_name |-> UsrPath(u_name),
                                                size |-> u_size])
    /\ UNCHANGED <<u_entries, u_stream, u_dirs, u_name, u_size, u_reg, u_ret>>

\* after the loop: update_download_stat for each entry of file_list,
\* uos.remove(self.__ota_file), return True
U_Register ==
    /\ u_pc = "reg"
    /\ u_reg' = u_list
    /\ u_ret' = "True"
    /\ u_pc' = "done"
    /\ UNCHANGED <<u_entries, u_stream, u_pos, u_dirs, u_fs, u_name, u_size,
                   u_last, u_rs, u_reads, u_list>>

\* a read, a write or a registration raises: control goes to
\* "except Exception"
U_Fault ==
    /\ u_pc \in {"head", "file", "reg"}
    /\ u_pc' = "except"
    /\ UNCHANGED <<u_entries, u_stream, u_pos, u_dirs, u_fs, u_name, u_size,
                   u_last, u_rs, u_reads, u_list, u_reg, u_ret>>

\* except Exception as e: log.error(); self.__ali.ota_device_progress(-4,
\* err_msg, ...); return False.   raises: the handler itself raises
\* (S_Upgrade follows the session from here)
U_Except(raises) ==
    /\ u_pc = "except"
    /\ u_ret' = IF raises THEN "raised" ELSE "False"
    /\ u_pc' = "done"
    /\ UNCHANGED <<u_entries, u_stream, u_pos, u_dirs, u_fs, u_name, u_size,
                   u_last, u_rs, u_reads, u_list, u_reg>>

(***************************************************************************)
(* AliYunIot.init: the transport client and its subscriptions.             *)
(*                                                                         *)
(* Each aLiYun(...) the session creates is a client, numbered in order of  *)
(* creation; self.__ali is the number of the current one, NoClient for     *)
(* None.                                                                   *)
(***************************************************************************)
NoClient == 0

\* the events the object model of the session declares, in the order
\* items["events"].keys() yields them
EventNames == <<"sos_alert", "fault_alert">>

\* the topics __ali_subscribe_topic subscribes, in the order of its calls
SubscribeTopics(events) ==
    LET declared == SelectSeq(EventNames, LAMBDA e : e \in events)
        pairs == [i \in 1..(2 * Len(declared)) |->
                    IF i % 2 = 1 THEN <<"event_post", declared[(i + 1) \div 2]>>
                    ELSE <<"event_post_reply", declared[i \div 2]>>]
    IN  <<(<<"property_post", "">>), (<<"property_post_reply", "">>),
          (<<"property_set", "">>)>>
            \o pairs
            \o <<(<<"ota_device_upgrade", "">>), (<<"ota_firmware_get_reply", "">>),
                 (<<"ota_file_download_reply", "">>), (<<"rrpc_request", "+">>)>>

\* AliYunIot.__init__ and set_object_model for a model declaring events
ConnConstructedWith(events) ==
    /\ i_ali = NoClient
    /\ i_made = 0
    /\ i_up = {}
    /\ i_subs = <<>>
    /\ i_closed = {}
    /\ i_events = events
    /\ i_calls = 0
    /\ i_enf = FALSE
    /\ i_mqtt = TRUE
    /\ i_ret = "none"

ConnConstructed == ConnConstructedWith({})

\* get_status(): self.__ali.getAliyunSta() == 0, False when that raises
get_status == i_ali # NoClient /\ i_ali \in i_up

\* a session that reconnects at every call
InitReturnsEarly_never(enforce) == FALSE

\* if enforce is False and self.__ali is not None: if self.get_status(): return True
InitReturnsEarly(enforce) == enforce = FALSE /\ i_ali # NoClient /\ get_status

\* init(enforce).  mqttok: setMqtt does not return -1; started: the client
\* is connected when start() has returned
Ali_Init(enforce, mqttok, started) ==
    /\ i_calls < MaxInits
    /\ i_calls' = i_calls + 1
    /\ i_enf' = enforce
    /\ IF InitReturnsEarly(enforce)
       THEN /\ i_ret' = "True"
            /\ UNCHANGED <<i_ali, i_made, i_up, i_subs, i_closed, i_mqtt>>
       ELSE /\ i_closed' = IF i_ali # NoClient THEN i_closed \cup {i_ali} ELSE i_closed
            /\ i_made' = i_made + 1
            /\ i_mqtt' = mqttok
            /\ IF mqttok
               THEN /\ i_ali' = i_made + 1
                    /\ i_subs' = Append(i_subs, SubscribeTopics(i_events))
                    /\ i_up' = (i_up \ {i_ali}) \cup
                                 (IF started THEN {i_made + 1} ELSE {})
                    /\ i_ret' = IF started THEN "True" ELSE "False"
               ELSE /\ i_ali' = NoClient
                    /\ i_subs' = Append(i_subs, <<>>)
                    /\ i_up' = i_up \ {i_ali}
                    /\ i_ret' = "False"
    /\ UNCHANGED i_events

\* the connection of the current client is lost
Net_Drop ==
    /\ i_ali # NoClient
    /\ i_ali \in i_up
    /\ i_up' = i_up \ {i_ali}
    /\ UNCHANGED <<i_ali, i_made, i_subs, i_closed, i_events, i_calls, i_enf,
                   i_mqtt, i_ret>>

\* the current client, set up with reconn=True, is connected again
Net_Reconnect ==
    /\ i_ali # NoClient
    /\ i_ali \notin i_up
    /\ i_up' = i_up \cup {i_ali}
    /\ UNCHANGED <<i_ali, i_made, i_subs, i_closed, i_events, i_calls, i_enf,
                   i_mqtt, i_ret>>

(***************************************************************************)
(* QuecObjectModel: items (per domain, key -> wire id) and items_id (wire  *)
(* id -> key).  CloudObjectModel.set_item stores the item under its domain *)
(* and key, a later registration of the key replacing the earlier.         *)
(***************************************************************************)
OmKeys == {"energy", "sos_alert"}
WireIds == 1..MaxWireId
NoWire == 0
NoKey == "none"

Fields == {"lat", "lng"}
FieldValue == [lat |-> 10, lng |-> 20]
ScalarValue == 7

WireKey(id) == [id |-> id, name |-> ""]
NameKey(name) == [id |-> NoWire, name |-> name]

Scalar(x) == [dict |-> FALSE, val |-> x, fields |-> <<>>]
Composite(f) == [dict |-> TRUE, val |-> 0, fields |-> f]

\* the values handed to __data_format: a scalar, and the dicts over the
\* sub-fields (the empty one included)
EncValues ==
    {Scalar(ScalarValue)} \cup
        {Composite([ik \in fs |-> FieldValue[ik]]) : fs \in SUBSET Fields}

\* items[om_type][k]["struct_info"]: sub-field -> wire id, NoWire if the
\* sub-field is not declared
NoStruct == [ik \in Fields |-> NoWire]

NoEnc == [ok |-> FALSE, id |-> NoWire, v |-> Scalar(0)]

EncConstructed ==
    /\ qm_struct = [t \in {"properties", "events"} |-> [k \in OmKeys |-> NoStruct]]
    /\ e_k = NoKey
    /\ e_v = Scalar(0)
    /\ e_res = NoEnc

\* no downlink message yet, nothing handed to the observers yet
NoEvent == [code |-> 0, ids |-> {}]
NoDelivery == [kind |-> "none", keys |-> {}]

EvConstructed ==
    /\ ev_in = NoEvent
    /\ ev_out = NoDelivery
    /\ ev_raised = FALSE

OmConstructed ==
    /\ qm_props = [k \in OmKeys |-> NoWire]
    /\ qm_events = [k \in OmKeys |-> NoWire]
    /\ items_id = [i \in WireIds |-> NoKey]
    /\ qm_regs = 0
    /\ EncConstructed
    /\ EvConstructed

\* CloudObjectModel.set_item on the items of one domain: the key is
\* inserted or overwritten, the last registration wins
CloudSetItem(items, om_key, om_key_id) == [items EXCEPT ![om_key] = om_key_id]

\* self.items[om_type]
OmItems(om_type) == IF om_type = "properties" THEN qm_props ELSE qm_events

\* QuecObjectModel.set_item(om_type, om_key, om_key_id, om_key_perm):
\*     if super().set_item(...): self.__set_items_id(om_key, om_key_id)
\* __set_items_id: self.items_id[om_key_id] = om_key
Om_SetItem(om_type, om_key, om_key_id) ==
    /\ qm_regs < MaxRegs
    /\ qm_regs' = qm_regs + 1
    /\ IF om_type = "properties"
       THEN /\ qm_props' = CloudSetItem(qm_props, om_key, om_key_id)
            /\ UNCHANGED qm_events
       ELSE /\ qm_events' = CloudSetItem(qm_events, om_key, om_key_id)
            /\ UNCHANGED qm_props
    /\ items_id' = [i \in DOMAIN items_id \cup {om_key_id} |->
                      IF i = om_key_id THEN om_key ELSE items_id[i]]
    /\ UNCHANGED <<qm_struct, e_k, e_v, e_res, ev_in, ev_out, ev_raised>>

\* the wire ids of a message that items_id maps
MappedIds(ids) == {i \in ids : items_id[i] # NoKey}

\* __event_cb, event 5, errcode 10210 (the cloud sets properties):
\*     dl_data = [(self.__object_model.items_id[k], ...) for k, v in eventdata.items()]
\*     res_data = ("object_model", dl_data); self.notifyObservers(self, *res_data)
\* items_id[k] raises KeyError for an id that is not in the dictionary
Ev_10210(ids) ==
    /\ ev_in' = [code |-> 10210, ids |-> ids]
    /\ IF MappedIds(ids) # ids
       THEN /\ ev_raised' = TRUE
            /\ UNCHANGED ev_out
       ELSE /\ ev_raised' = FALSE
            /\ ev_out' = [kind |-> "object_model", keys |-> {items_id[i] : i \in ids}]
    /\ UNCHANGED <<qm_props, qm_events, items_id, qm_regs, qm_struct, e_k, e_v, e_res>>

\* __event_cb, event 5, errcode 10211 (the cloud queries properties):
\*     object_model_val = [items_id[i] for i in object_model_ids if items_id.get(i)]
\*     res_data = ("query", object_model_val); self.notifyObservers(self, *res_data)
Ev_10211(ids) ==
    /\ ev_in' = [code |-> 10211, ids |-> ids]
    /\ ev_raised' = FALSE
    /\ ev_out' = [kind |-> "query", keys |-> {items_id[i] : i \in MappedIds(ids)}]
    /\ UNCHANGED <<qm_props, qm_events, items_id, qm_regs, qm_struct, e_k, e_v, e_res>>

\* the k_id of QuecThing.__data_format(k, v): the id of the event k, else
\* of the property k, NoWire where __data_format returns False
DataFormatId(k) ==
    IF qm_events[k] # NoWire THEN qm_events[k]
    ELSE IF qm_props[k] # NoWire THEN qm_props[k]
    ELSE NoWire

\* __event_cb, event 5: self.__object_model.items_id[k]
ReverseLookup(id) == items_id[id]

(***************************************************************************)
(* QuecThing.__data_format(k, v).                                          *)
(*                                                                         *)
(* A value is scalar or composite (a dict of sub-fields).  A key of the    *)
(* dict __data_format returns is a wire id or a name: WireKey(id),         *)
(* NameKey(name).                                                          *)
(***************************************************************************)
\* a translation that keeps every sub-field under its name
FieldKey_name(struct_info, ik) == NameKey(ik)

\* if struct_info.get(ik): nv[struct_info[ik]["id"]] = iv   else: nv[ik] = iv
FieldKey(struct_info, ik) ==
    IF struct_info[ik] # NoWire THEN WireKey(struct_info[ik]) ELSE NameKey(ik)

\* the struct_info __data_format picks: of the event k, else of the property k
DataFormatStruct(k) ==
    IF qm_events[k] # NoWire THEN qm_struct["events"][k]
    ELSE qm_struct["properties"][k]

\* nv: for ik, iv in v.items(): nv[key of ik] = iv
TranslateFields(struct_info, f) ==
    LET keys == {FieldKey(struct_info, ik) : ik \in DOMAIN f}
    IN  [key \in keys |->
            f[CHOOSE ik \in DOMAIN f : FieldKey(struct_info, ik) = key]]

\* __data_format(k, v): False, or {k_id: v} with a dict v translated
data_format(k, v) ==
    IF DataFormatId(k) = NoWire
    THEN NoEnc
    ELSE [ok |-> TRUE,
          id |-> DataFormatId(k),
          v |-> IF v.dict THEN Composite(TranslateFields(DataFormatStruct(k), v.fields))
                ELSE v]

\* a call of __data_format
Q_DataFormat(k, v) ==
    /\ e_k' = k
    /\ e_v' = v
    /\ e_res' = data_format(k, v)
    /\ UNCHANGED <<qm_props, qm_events, items_id, qm_regs, qm_struct, ev_in, ev_out,
                   ev_raised>>

(***************************************************************************)
(* QuecThing.post_data(data) and the caller's dictionary.                  *)
(*                                                                         *)
(* data maps a key to its value: "100" (a non-empty value), "0" (an empty  *)
(* one: 0, "", [], {}), "None", or Absent for a key that is not in the     *)
(* dictionary.                                                             *)
(***************************************************************************)
PdKeys == <<"energy", "gps", "note">>
PdKeySet == {PdKeys[i] : i \in 1..Len(PdKeys)}
PdAbsent == "absent"
PdValues == {"100", "0", "None"}

\* __data_format(k, v) is not False: k is in the object model
PdDeclared(k) == k = "energy"

\* if not v
PdEmpty(v) == v \in {"0", "None"}

\* the keys of data, in the order data.items() yields them
PdItems(data) == SelectSeq(PdKeys, LAMBDA k : data[k] # PdAbsent)

PostDataConstructed ==
    /\ pd_pc = "idle"
    /\ pd_orig = [k \in PdKeySet |-> PdAbsent]
    /\ pd_data = [k \in PdKeySet |-> PdAbsent]
    /\ pd_left = <<>>
    /\ pd_acked = {}
    /\ pd_ret = "none"

\* post_data(data): res = True; for k, v in data.items():
PD_Call(data) ==
    /\ pd_pc = "idle"
    /\ pd_orig' = data
    /\ pd_data' = data
    /\ pd_left' = PdItems(data)
    /\ pd_acked' = {}
    /\ pd_ret' = "True"
    /\ pd_pc' = "loop"

\* one pass of the loop for the item k, v.
\*   declared k, v None: continue
\*   undeclared k, neither "gps" nor "non_gps": v = {}; continue
\*   otherwise the report; reported: the report call returns true;
\*   acked: __get_post_res() returns True
\*     not reported, or not acked: res = False; break
\*     acked: v = {}   (the local name v is bound anew; data[k] is as it was)
PD_Item(reported, acked) ==
    /\ pd_pc = "loop"
    /\ pd_left # <<>>
    /\ LET k == Head(pd_left)
           v == pd_data[k]
           report == IF PdDeclared(k) THEN v # "None" ELSE k \in {"gps", "non_gps"}
       IN  IF ~report
           THEN /\ pd_left' = Tail(pd_left)
                /\ UNCHANGED <<pd_acked, pd_ret>>
           ELSE IF reported /\ acked
           THEN /\ pd_left' = Tail(pd_left)
                /\ pd_acked' = pd_acked \cup {k}
                /\ pd_ret' = "True"
           ELSE /\ pd_left' = <<>>
                /\ pd_ret' = "False"
                /\ UNCHANGED pd_acked
    /\ UNCHANGED <<pd_pc, pd_orig, pd_data>>

\* self.__rm_empty_data(data); return res
\*     for k, v in data.items(): if not v: del data[k]
\* The dictionary is changed while it is iterated.  whole: the iteration
\* goes on over every item; otherwise it raises at the step after the
\* first deletion and post_data raises with it.
PD_Return(whole) ==
    /\ pd_pc = "loop"
    /\ pd_left = <<>>
    /\ LET items == PdItems(pd_data)
           empty == SelectSeq(items, LAMBDA k : PdEmpty(pd_data[k]))
       IN  IF whole \/ empty = <<>> \/ Head(empty) = items[Len(items)]
           THEN /\ pd_data' = [k \in PdKeySet |->
                                 IF PdEmpty(pd_data[k]) THEN PdAbsent ELSE pd_data[k]]
                /\ UNCHANGED pd_ret
           ELSE /\ pd_data' = [pd_data EXCEPT ![Head(empty)] = PdAbsent]
                /\ pd_ret' = "raised"
    /\ pd_pc' = "done"
    /\ UNCHANGED <<pd_orig, pd_left, pd_acked>>

\* the caller is ready for its next post_data
PD_Again ==
    /\ pd_pc = "done"
    /\ pd_pc' = "idle"
    /\ UNCHANGED <<pd_orig, pd_data, pd_left, pd_acked, pd_ret>>

(***************************************************************************)
(* AliOTA: the transfer threads started by start_ota.                      *)
(*                                                                         *)
(* AliOTA(ali, mcu_name, firmware_name) reports through ali; the session   *)
(* AliYunIot builds passes its own self.__ali, which is None at that point *)
(* and is never refreshed, so every report of such an AliOTA raises        *)
(* AttributeError.  The model keeps ali as a constructor input: "None" or  *)
(* "reporter" (an object with a working ota_device_progress).              *)
(***************************************************************************)
OtaThreads == 1..MaxTransfers

\* AliOTA.__mcu_name and AliOTA.__firmware_name of the session
mcu_name == "mcu"
firmware_name == "fw"

NoPart == 0
NoFail == [stage |-> "none", part |-> NoPart]
\* AliOTA.__file_hash before any download
NoHash == "None"
\* the digest of a downloaded file that differs from every declared md5
CorruptHash == "corrupt"

\* Queue(maxsize=4)
FotaQueueMax == 4

\* progress codes of ota_device_progress used by AliOTA
StepFailed == -1
StepDownloadFailed == -2
StepVerifyFailed == -3
StepUnpackFailed == -4
StepDownloadOver == 100
\* a down_process value reported while the download runs
DownProcess == 50

\* AliOTA.__init__ for a given ali
OtaConstructedWith(ali) ==
    /\ o_ali = ali
    /\ th_kind = [t \in OtaThreads |-> "none"]
    /\ th_pc = [t \in OtaThreads |-> "none"]
    /\ th_files = [t \in OtaThreads |-> EmptyFiles]
    /\ th_i = [t \in OtaThreads |-> 1]
    /\ th_up = [t \in OtaThreads |-> {}]
    /\ th_fail = [t \in OtaThreads |-> NoFail]
    /\ th_cancel = [t \in OtaThreads |-> NoPart]
    /\ th_ret = [t \in OtaThreads |-> "none"]
    /\ file_hash = NoHash
    /\ update_flag = FALSE
    /\ restarted = FALSE
    /\ fota_queue = <<>>
    /\ ota_timer = FALSE
    /\ dl_active = {}
    /\ o_reported = {}
    /\ act_ret = "none"
    /\ o_ops = 0

\* AliYunIot.__init__: self.__ota = AliOTA(self.__ali, ...) with self.__ali None
OtaConstructed == OtaConstructedWith("None")

\* self.__ali.ota_device_progress(...) raises AttributeError when ali is None
ReportRaises == o_ali = "None"

\* the step codes published once ota_device_progress(step, ...) was called
Reported(step) == IF ReportRaises THEN o_reported ELSE o_reported \cup {step}

\* a transfer thread that has not finished
Running(t) == th_kind[t] # "none" /\ th_pc[t] \notin {"done", "crashed"}

\* the position of the for loop of __start_sota at part i of files
LoopAt(files, i) == IF i > Len(files) THEN "flag" ELSE "download"

\* the cloud announces an image: AliYunIot.__ali_sub_cb calls
\* self.__ota.set_ota_info(module, version, files)
Ota_Announce(img) ==
    /\ ~restarted
    /\ o_ops < MaxOtaOps
    /\ o_ops' = o_ops + 1
    /\ set_ota_info(img.module, img.version, img.files)
    /\ UNCHANGED <<o_ali, th_kind, th_pc, th_files, th_i, th_up, th_fail,
                   th_cancel, th_ret, file_hash, update_flag, restarted,
                   fota_queue, ota_timer, dl_active, o_reported, act_ret>>

(***************************************************************************)
(* AliYunIot.__ali_sub_cb for an upgrade announcement (or a firmware-get   *)
(* reply) that carries a plan, with what its observers find.               *)
(***************************************************************************)
NoPlan == [module |-> "", version |-> "", files |-> EmptyFiles]

\* the image AliOTA holds: what start_ota and the transfer threads read
HeldImage == [module |-> ota_module, version |-> ota_version, files |-> ota_files]

ObserverConstructed ==
    /\ ob_plan = NoPlan
    /\ ob_held = NoPlan
    /\ st_ret = "none"
    /\ st_started = FALSE

\* the image AliOTA holds while notifyObservers runs: the statements are
\*     self.notifyObservers(self, *("object_model", [("ota_status", ...)]))
\*     self.notifyObservers(self, *("ota_plain", [("ota_cfg", data["data"])]))
\*     ...
\*     self.__ota.set_ota_info(data["data"]["module"], data["data"]["version"], files)
HeldAtNotify(img) == HeldImage

\* the whole branch: the observers are notified of img, then the image is
\* handed to AliOTA
Ota_Notify(img) ==
    /\ ob_plan' = img
    /\ ob_held' = HeldAtNotify(img)
    /\ Ota_Announce(img)
    /\ UNCHANGED <<st_ret, st_started>>

\* the part a transfer thread is downloading, or NoPart
DownloadingPart(t) ==
    IF th_kind[t] = "sota" /\ th_pc[t] = "download" THEN th_i[t]
    ELSE IF th_kind[t] = "fota" /\ th_pc[t] \in {"http", "wait"} THEN 1
    ELSE NoPart

\* AliYunIot.ota_action(0, module): self.__ota.set_ota_info("", "", []),
\* then the cancellation report
Ota_Cancel ==
    /\ ~restarted
    /\ o_ops < MaxOtaOps
    /\ o_ops' = o_ops + 1
    /\ CancelClear
    /\ th_cancel' = [t \in OtaThreads |->
                        IF th_cancel[t] = NoPart THEN DownloadingPart(t)
                        ELSE th_cancel[t]]
    /\ UNCHANGED <<o_ali, th_kind, th_pc, th_files, th_i, th_up, th_fail,
                   th_ret, file_hash, update_flag, restarted, fota_queue,
                   ota_timer, dl_active, o_reported, act_ret>>

\* AliYunIot.ota_action(1, module), module non-empty:
\*     if self.ota_device_progress(step=1, module=module): return self.__ota.start_ota()
\* ota_device_progress(self, step, desc, module="default") is called without
\* desc: the call raises TypeError before anything is published
Ota_Action1 ==
    /\ ~restarted
    /\ act_ret = "none"
    /\ act_ret' = "TypeError"
    /\ UNCHANGED <<o_ali, th_kind, th_pc, th_files, th_i, th_up, th_fail,
                   th_cancel, th_ret, file_hash, update_flag, restarted,
                   fota_queue, ota_timer, dl_active, o_reported, o_ops,
                   imgVars>>

\* the slot of the next thread started
FreeSlot(t) == th_kind[t] = "none" /\ \A u \in OtaThreads : u < t => th_kind[u] # "none"

\* AliOTA.start_ota():
\*     if self.__module == self.__firmware_name: start_new_thread(self.__start_fota, ())
\*     elif self.__module == self.__mcu_name: start_new_thread(self.__start_sota, ())
\*     return True
StartOta(t) ==
    /\ ~restarted
    /\ o_ops < MaxOtaOps
    /\ o_ops' = o_ops + 1
    /\ FreeSlot(t)
    /\ IF ota_module \in {firmware_name, mcu_name}
       THEN /\ th_kind' = [th_kind EXCEPT ![t] =
                              IF ota_module = firmware_name THEN "fota" ELSE "sota"]
            /\ th_pc' = [th_pc EXCEPT ![t] = "begin"]
       ELSE UNCHANGED <<th_kind, th_pc>>
    /\ UNCHANGED <<o_ali, th_files, th_i, th_up, th_fail, th_cancel, th_ret,
                   file_hash, update_flag, restarted, fota_queue, ota_timer,
                   dl_active, o_reported, act_ret, imgVars>>

\* start_ota as its caller sees it: the value of "return True", and whether
\* one of the two start_new_thread calls was made
Ota_Start(t) ==
    /\ StartOta(t)
    /\ st_ret' = "True"
    /\ st_started' = (th_kind'[t] # th_kind[t])
    /\ UNCHANGED <<ob_plan, ob_held>>

(***************************************************************************)
(* AliOTA.__start_sota                                                     *)
(***************************************************************************)
\* for file in self.__files: the loop iterates the list object bound to
\* self.__files when the thread reaches the loop
S_Begin(t) ==
    /\ ~restarted
    /\ th_kind[t] = "sota"
    /\ th_pc[t] = "begin"
    /\ th_files' = [th_files EXCEPT ![t] = ota_files]
    /\ th_i' = [th_i EXCEPT ![t] = 1]
    /\ th_pc' = [th_pc EXCEPT ![t] = LoopAt(ota_files, 1)]
    /\ UNCHANGED <<o_ali, th_kind, th_up, th_fail, th_cancel, th_ret,
                   file_hash, update_flag, restarted, fota_queue, ota_timer,
                   dl_active, o_reported, act_ret, o_ops, imgVars>>

\* __download(file["url"]): res == 0: the file is hashed into
\* self.__file_hash, return True; else report -2, return False (break)
S_Download(t, res) ==
    /\ ~restarted
    /\ th_kind[t] = "sota"
    /\ th_pc[t] = "download"
    /\ IF res = "fail"
       THEN /\ th_fail' = [th_fail EXCEPT ![t] = [stage |-> "download", part |-> th_i[t]]]
            /\ o_reported' = Reported(StepDownloadFailed)
            /\ th_pc' = [th_pc EXCEPT ![t] = IF ReportRaises THEN "crashed" ELSE "flag"]
            /\ UNCHANGED file_hash
       ELSE /\ file_hash' = IF res = "good" THEN th_files[t][th_i[t]].md5 ELSE CorruptHash
            /\ th_pc' = [th_pc EXCEPT ![t] = "check"]
            /\ UNCHANGED <<th_fail, o_reported>>
    /\ UNCHANGED <<o_ali, th_kind, th_files, th_i, th_up, th_cancel, th_ret,
                   update_flag, restarted, fota_queue, ota_timer, dl_active,
                   act_ret, o_ops, imgVars>>

\* a loop that goes on to __upgrade after a checksum mismatch
MismatchNext_upgrade == "upgrade"

\* __start_sota: if self.__check_md5(file["md5"]) ... else: break
MismatchNext == "flag"

\* __check_md5(cloud_md5): cloud_md5 != file_md5: report -3, return False
S_CheckMd5(t) ==
    /\ ~restarted
    /\ th_kind[t] = "sota"
    /\ th_pc[t] = "check"
    /\ IF th_files[t][th_i[t]].md5 # file_hash
       THEN /\ th_fail' = [th_fail EXCEPT ![t] = [stage |-> "md5", part |-> th_i[t]]]
            /\ o_reported' = Reported(StepVerifyFailed)
            /\ th_pc' = [th_pc EXCEPT ![t] = IF ReportRaises THEN "crashed" ELSE MismatchNext]
       ELSE /\ th_pc' = [th_pc EXCEPT ![t] = "upgrade"]
            /\ UNCHANGED <<th_fail, o_reported>>
    /\ UNCHANGED <<o_ali, th_kind, th_files, th_i, th_up, th_cancel, th_ret,
                   file_hash, update_flag, restarted, fota_queue, ota_timer,
                   dl_active, act_ret, o_ops, imgVars>>

\* __upgrade(): unpacks self.__ota_file; on an exception
\*     log.error(); self.__ali.ota_device_progress(-4, err_msg, ...); return False
\* lograises: log.error() without a message raises in the handler
S_Upgrade(t, ok, lograises) ==
    /\ ~restarted
    /\ th_kind[t] = "sota"
    /\ th_pc[t] = "upgrade"
    /\ th_up' = [th_up EXCEPT ![t] = @ \cup {th_i[t]}]
    /\ IF ok
       THEN /\ th_i' = [th_i EXCEPT ![t] = @ + 1]
            /\ th_pc' = [th_pc EXCEPT ![t] = LoopAt(th_files[t], th_i[t] + 1)]
            /\ UNCHANGED <<th_fail, o_reported>>
       ELSE /\ th_fail' = [th_fail EXCEPT ![t] = [stage |-> "unpack", part |-> th_i[t]]]
            /\ o_reported' = IF lograises THEN o_reported ELSE Reported(StepUnpackFailed)
            /\ th_pc' = [th_pc EXCEPT ![t] =
                            IF lograises \/ ReportRaises THEN "crashed" ELSE "flag"]
            /\ UNCHANGED th_i
    /\ UNCHANGED <<o_ali, th_kind, th_files, th_cancel, th_ret, file_hash,
                   update_flag, restarted, fota_queue, ota_timer, dl_active,
                   act_ret, o_ops, imgVars>>

\* after the loop, reached by exhaustion and by break alike:
\*     app_fota_download.set_update_flag()
S_Flag(t) ==
    /\ ~restarted
    /\ th_kind[t] = "sota"
    /\ th_pc[t] = "flag"
    /\ update_flag' = TRUE
    /\ th_pc' = [th_pc EXCEPT ![t] = "restart"]
    /\ UNCHANGED <<o_ali, th_kind, th_files, th_i, th_up, th_fail, th_cancel,
                   th_ret, file_hash, restarted, fota_queue, ota_timer,
                   dl_active, o_reported, act_ret, o_ops, imgVars>>

\*     Power.powerRestart()
S_Restart(t) ==
    /\ ~restarted
    /\ th_kind[t] = "sota"
    /\ th_pc[t] = "restart"
    /\ restarted' = TRUE
    /\ th_pc' = [th_pc EXCEPT ![t] = "done"]
    /\ UNCHANGED <<o_ali, th_kind, th_files, th_i, th_up, th_fail, th_cancel,
                   th_ret, file_hash, update_flag, fota_queue, ota_timer,
                   dl_active, o_reported, act_ret, o_ops, imgVars>>

(***************************************************************************)
(* AliOTA.__start_fota and its callbacks                                   *)
(***************************************************************************)
\* url1 = self.__files[0]["url"]: IndexError when the list is empty
F_Begin(t) ==
    /\ ~restarted
    /\ th_kind[t] = "fota"
    /\ th_pc[t] = "begin"
    /\ th_files' = [th_files EXCEPT ![t] = ota_files]
    /\ IF ota_files = EmptyFiles
       THEN /\ th_pc' = [th_pc EXCEPT ![t] = "crashed"]
            /\ UNCHANGED dl_active
       ELSE /\ th_pc' = [th_pc EXCEPT ![t] = "http"]
            /\ dl_active' = dl_active \cup {t}
    /\ UNCHANGED <<o_ali, th_kind, th_i, th_up, th_fail, th_cancel, th_ret,
                   file_hash, update_flag, restarted, fota_queue, ota_timer,
                   o_reported, act_ret, o_ops, imgVars>>

\* res = fota_obj.httpDownload(...): res == 0: start the one-hour timer and
\* wait on the queue; else report -2 and return False
F_Http(t, ok) ==
    /\ ~restarted
    /\ th_kind[t] = "fota"
    /\ th_pc[t] = "http"
    /\ IF ok
       THEN /\ ota_timer' = TRUE
            /\ th_pc' = [th_pc EXCEPT ![t] = "wait"]
            /\ UNCHANGED <<th_fail, th_ret, dl_active, o_reported>>
       ELSE /\ th_fail' = [th_fail EXCEPT ![t] = [stage |-> "download", part |-> 1]]
            /\ o_reported' = Reported(StepDownloadFailed)
            /\ dl_active' = dl_active \ {t}
            /\ th_pc' = [th_pc EXCEPT ![t] = IF ReportRaises THEN "crashed" ELSE "done"]
            /\ th_ret' = [th_ret EXCEPT ![t] = IF ReportRaises THEN @ ELSE "False"]
            /\ UNCHANGED ota_timer
    /\ UNCHANGED <<o_ali, th_kind, th_files, th_i, th_up, th_cancel,
                   file_hash, update_flag, restarted, fota_queue, act_ret,
                   o_ops, imgVars>>

\* self.__fota_queue.put(res), reached only if the report before it returned
FotaPut(q, res) == IF ReportRaises THEN q ELSE Append(q, res)

\* __fota_callback(args): down_status in (0, 1): report the percentage;
\* 2: report 100 and put True; else: report -2 and put False
F_Callback(t, status) ==
    /\ ~restarted
    /\ t \in dl_active
    /\ Len(fota_queue) < FotaQueueMax
    /\ o_reported' = Reported(CASE status = "progress" -> DownProcess
                                [] status = "over" -> StepDownloadOver
                                [] OTHER -> StepDownloadFailed)
    /\ IF status = "progress"
       THEN UNCHANGED <<fota_queue, dl_active>>
       ELSE /\ fota_queue' = FotaPut(fota_queue, status = "over")
            /\ dl_active' = dl_active \ {t}
    /\ UNCHANGED <<o_ali, th_kind, th_pc, th_files, th_i, th_up, th_fail,
                   th_cancel, th_ret, file_hash, update_flag, restarted,
                   ota_timer, act_ret, o_ops, imgVars>>

\* __ota_timer_callback: report -1 and put False
F_TimerCb ==
    /\ ~restarted
    /\ ota_timer
    /\ Len(fota_queue) < FotaQueueMax
    /\ ota_timer' = FALSE
    /\ o_reported' = Reported(StepFailed)
    /\ fota_queue' = FotaPut(fota_queue, FALSE)
    /\ UNCHANGED <<o_ali, th_kind, th_pc, th_files, th_i, th_up, th_fail,
                   th_cancel, th_ret, file_hash, update_flag, restarted,
                   dl_active, act_ret, o_ops, imgVars>>

\* fota_res = self.__fota_queue.get(); self.__ota_timer.stop(); return fota_res
F_Wait(t) ==
    /\ ~restarted
    /\ th_kind[t] = "fota"
    /\ th_pc[t] = "wait"
    /\ fota_queue # <<>>
    /\ fota_queue' = Tail(fota_queue)
    /\ ota_timer' = FALSE
    /\ th_ret' = [th_ret EXCEPT ![t] = IF Head(fota_queue) THEN "True" ELSE "False"]
    /\ th_pc' = [th_pc EXCEPT ![t] = "done"]
    /\ UNCHANGED <<o_ali, th_kind, th_files, th_i, th_up, th_fail, th_cancel,
                   file_hash, update_flag, restarted, dl_active, o_reported,
                   act_ret, o_ops, imgVars>>

(***************************************************************************)
(* AliYunIot.__data_format: the messages built for a record.               *)
(***************************************************************************)
\* the keys a record or an object model may hold
FmtKeys == {"energy", "speed", "sos_alert"}

\* the records: data.items() visits each key of the dict once, in some order
FmtRecords == {q \in SeqsUpTo(FmtKeys, Cardinality(FmtKeys)) :
                  \A i, j \in 1..Len(q) : i # j => q[i] # q[j]}

NoFmt == [property |-> <<>>, event |-> <<>>, msg_ids |-> <<>>]

\* AliYunIot.__init__ (self.__object_model = None), before any __data_format
FmtConstructed ==
    /\ om_props = {}
    /\ om_events = {}
    /\ f_data = <<>>
    /\ f_pc = "idle"
    /\ f_res = NoFmt
    /\ f_vals = <<>>
    /\ f_value = <<>>

\* a record key is filed under property_params even if it is not declared
IsProperty_any(k) == TRUE

\* if k in self.__object_model.items["properties"].keys()
IsProperty(k) == k \in om_props

\* elif k in self.__object_model.items["events"].keys()
IsEvent(k) == ~IsProperty(k) /\ k \in om_events

\* property_params / event_params: the keys of data filed under each
PropertyParams(data) == SelectSeq(data, IsProperty)
EventParams(data) == SelectSeq(data, IsEvent)

\* the number of messages built: one if property_params, one per event
MsgCount(data) ==
    (IF PropertyParams(data) # <<>> THEN 1 ELSE 0) + Len(EventParams(data))

\* res["property"]: if property_params: one message under msg_id = __get_id()
PropertyMsgs(data, ids) ==
    IF PropertyParams(data) # <<>>
    THEN << [id |-> ids[1], params |-> Range(PropertyParams(data)),
             method |-> "property"] >>
    ELSE <<>>

\* res["event"]: for event in event_params.keys(): one message each, under
\* the ids that follow the property message's
EventMsgs(data, ids) ==
    LET off == Len(PropertyMsgs(data, ids))
        ev == EventParams(data)
    IN  [i \in 1..Len(ev) |->
            [id |-> ids[off + i], params |-> {ev[i]}, method |-> ev[i]]]

\* the values a record holds: a number, or the empty dictionary
EmptyDict == "{}"
FmtValues == {"100", EmptyDict}

\* property_params[k] = {"value": v, "time": ...}
PropertyValue(v) == v

\* event_params[k] = {"value": {}, "time": ...}
EventValue(v) == EmptyDict

\* the "value" entries of property_params and event_params for the record
\* with values vals
ParamValues(data, vals) ==
    [k \in Range(PropertyParams(data)) \cup Range(EventParams(data)) |->
        IF IsProperty(k) THEN PropertyValue(vals[k]) ELSE EventValue(vals[k])]

\* publish_data = self.__data_format(data)
DataFormat(data) ==
    /\ f_pc = "idle"
    /\ f_data' = data
    /\ \E vals \in [Range(data) -> FmtValues] :
          /\ f_vals' = vals
          /\ f_value' = ParamValues(data, vals)
    /\ LET ids == IdsFrom(id_iter, MsgCount(data))
       IN  /\ f_res' = [property |-> PropertyMsgs(data, ids),
                        event |-> EventMsgs(data, ids),
                        msg_ids |-> ids]
           /\ id_iter' = IterAfter(id_iter, MsgCount(data))
    /\ f_pc' = "done"
    /\ UNCHANGED <<om_props, om_events, id_lock, id_pc, id_cur, id_ret, id_hist>>

\* the next call of __data_format
Fmt_Again ==
    /\ f_pc = "done"
    /\ f_pc' = "idle"
    /\ f_data' = <<>>
    /\ f_res' = NoFmt
    /\ f_vals' = <<>>
    /\ f_value' = <<>>
    /\ UNCHANGED <<om_props, om_events, idVars>>

(***************************************************************************)
(* SpecCorr: callers post data and cancel upgrades on a constructed        *)
(* session while the cloud answers, announces, or stays silent.            *)
(***************************************************************************)
InitCorr ==
    /\ ObserverConstructed
    /\ TimerConstructed
    /\ PostDataConstructed
    /\ OmConstructed
    /\ ConnConstructed
    /\ UnpackConstructed
    /\ SotaConstructed
    /\ IdConstructed /\ CorrConstructed /\ OtaImageConstructed
    /\ QuecConstructed /\ OtaConstructed /\ FmtConstructed

\* the caller followed in SpecCorr
CorrCallers == {"a"}

\* the image announced in SpecCorr
CorrImages == {img \in Images : img.module = "mcu"}

\* the ids the cloud gives its announcements in SpecCorr: the two the device
\* draws first, so that an announcement can carry the id of a message the
\* device waits for
AnnounceIds == {numiter, numiter + 1}

NextCorr ==
    /\ \/ \E t \in CorrCallers, k \in 0..MaxBatch : PostData_Format(t, k)
       \/ \E t \in CorrCallers : \E sent \in SUBSET Range(c_ids[t]) : PostData_Publish(t, sent)
       \/ \E t \in CorrCallers : PostData_FormatRaise(t)
       \/ \E t \in CorrCallers : PostData_PublishRaise(t)
       \/ \E t \in CorrCallers : Cancel_Begin(t)
       \/ \E t \in CorrCallers, sent \in BOOLEAN : Progress_Publish(t, sent)
       \/ \E t \in CorrCallers : W_Start(t)
       \/ \E t \in CorrCallers : W_Check(t)
       \/ \E t \in CorrCallers : W_Flag(t)
       \/ \E t \in CorrCallers : W_Finish(t)
       \/ \E t \in CorrCallers : Op_Again(t)
       \/ TimerFire
       \/ \E id \in AllIds, code \in Codes : SubCb_PostReply(id, code)
       \/ \E id \in AnnounceIds, code \in Codes, img \in CorrImages : SubCb_Upgrade(id, code, img)
    /\ UNCHANGED <<quecVars, otaVars, fmtVars, sotaVars, upVars, connVars,
                   omVars, pdVars, tmVars, obVars>>

SpecCorr == InitCorr /\ [][NextCorr]_vars

(***************************************************************************)
(* SpecIdConc: N threads call __get_id once each, concurrently, on a       *)
(* session that has issued any number of ids before.                       *)
(***************************************************************************)
InitIdConc ==
    /\ ObserverConstructed
    /\ TimerConstructed
    /\ PostDataConstructed
    /\ OmConstructed
    /\ ConnConstructed
    /\ UnpackConstructed
    /\ SotaConstructed
    /\ CorrConstructed
    /\ OtaImageConstructed
    /\ QuecConstructed
    /\ OtaConstructed
    /\ FmtConstructed
    /\ id_iter \in 0..NumIterLen
    /\ id_lock = NoThread
    /\ id_pc = [t \in Threads |-> "idle"]
    /\ id_cur = [t \in Threads |-> NoId]
    /\ id_ret = [t \in Threads |-> NoId]
    /\ id_hist = <<>>

NextIdConc ==
    /\ \E t \in Threads :
        \/ GetId_Enter(t)
        \/ GetId_Next(t)
        \/ GetId_Advance(t)
        \/ GetId_Return(t)
    /\ UNCHANGED <<corrVars, imgVars, quecVars, otaVars, fmtVars, sotaVars,
                   upVars, connVars, omVars, pdVars, tmVars, obVars>>

SpecIdConc == InitIdConc /\ [][NextIdConc]_vars

(***************************************************************************)
(* SpecIdSeq: successive calls of __get_id on a freshly constructed        *)
(* session, past the exhaustion of the iterator.                           *)
(***************************************************************************)
InitIdSeq ==
    /\ ObserverConstructed
    /\ TimerConstructed
    /\ PostDataConstructed
    /\ OmConstructed
    /\ ConnConstructed
    /\ UnpackConstructed
    /\ SotaConstructed
    /\ IdConstructed /\ CorrConstructed /\ OtaImageConstructed
    /\ QuecConstructed /\ OtaConstructed /\ FmtConstructed

NextIdSeq ==
    /\ \E t \in Threads :
        \/ GetId_Enter(t)
        \/ GetId_Next(t)
        \/ GetId_Advance(t)
        \/ GetId_Return(t)
        \/ GetId_Again(t)
    /\ UNCHANGED <<corrVars, imgVars, quecVars, otaVars, fmtVars, sotaVars,
                   upVars, connVars, omVars, pdVars, tmVars, obVars>>

SpecIdSeq == InitIdSeq /\ [][NextIdSeq]_vars

(***************************************************************************)
(* SpecQuec: one caller posts records through QuecThing.post_data while    *)
(* the cloud acknowledges reports, early, late or never.                   *)
(***************************************************************************)
QReports == 1..MaxReports

InitQuec ==
    /\ ObserverConstructed
    /\ TimerConstructed
    /\ PostDataConstructed
    /\ OmConstructed
    /\ ConnConstructed
    /\ UnpackConstructed
    /\ SotaConstructed
    /\ IdConstructed /\ CorrConstructed /\ OtaImageConstructed
    /\ QuecConstructed /\ OtaConstructed /\ FmtConstructed

NextQuec ==
    /\ \/ \E items \in QRecords : Q_PostData(items)
       \/ Q_Skip
       \/ \E ok \in BOOLEAN : Q_Report(ok)
       \/ Q_WaitStart
       \/ Q_WaitGet
       \/ Q_WaitStop
       \/ Q_Return
       \/ Q_Again
       \/ Q_TimerCb
       \/ \E r \in QReports, ok \in BOOLEAN : Q_EventAck(r, ok)
    /\ UNCHANGED <<idVars, corrVars, imgVars, otaVars, fmtVars, sotaVars,
                   upVars, connVars, omVars, pdVars, tmVars, obVars>>

SpecQuec == InitQuec /\ [][NextQuec]_vars

(***************************************************************************)
(* SpecOta: images are announced and cancelled and start_ota is called     *)
(* while transfer threads download, verify and unpack.                     *)
(***************************************************************************)
InitOta ==
    /\ ObserverConstructed
    /\ TimerConstructed
    /\ PostDataConstructed
    /\ OmConstructed
    /\ ConnConstructed
    /\ UnpackConstructed
    /\ SotaConstructed
    /\ IdConstructed /\ CorrConstructed /\ OtaImageConstructed
    /\ QuecConstructed /\ FmtConstructed
    /\ \E ali \in {"None", "reporter"} : OtaConstructedWith(ali)

NextOta ==
    /\ \/ \E img \in Images : Ota_Announce(img)
       \/ Ota_Cancel
       \/ Ota_Action1
       \/ \E t \in OtaThreads : StartOta(t)
       \/ \E t \in OtaThreads : S_Begin(t)
       \/ \E t \in OtaThreads, res \in {"good", "corrupt", "fail"} : S_Download(t, res)
       \/ \E t \in OtaThreads : S_CheckMd5(t)
       \/ \E t \in OtaThreads, ok \in BOOLEAN, lograises \in BOOLEAN : S_Upgrade(t, ok, lograises)
       \/ \E t \in OtaThreads : S_Flag(t)
       \/ \E t \in OtaThreads : S_Restart(t)
       \/ \E t \in OtaThreads : F_Begin(t)
       \/ \E t \in OtaThreads, ok \in BOOLEAN : F_Http(t, ok)
       \/ \E t \in OtaThreads, status \in {"progress", "over", "error"} : F_Callback(t, status)
       \/ F_TimerCb
       \/ \E t \in OtaThreads : F_Wait(t)
    /\ UNCHANGED <<idVars, corrVars, quecVars, fmtVars, sotaVars, upVars,
                   connVars, omVars, pdVars, tmVars, obVars>>

SpecOta == InitOta /\ [][NextOta]_vars

(***************************************************************************)
(* SpecOtaLive: SpecOta under the scheduling the firmware path counts on:  *)
(* a download that was accepted calls __fota_callback with a final status, *)
(* the armed one-hour timer fires unless it is stopped, and a thread       *)
(* blocked in self.__fota_queue.get() runs once the queue holds a result.  *)
(***************************************************************************)
OtaOnly ==
    UNCHANGED <<idVars, corrVars, quecVars, fmtVars, sotaVars, upVars,
                connVars, omVars, pdVars, tmVars, obVars>>

\* the download of thread t ends: callback with status 2 or with an error
F_Final(t) == \E status \in {"over", "error"} : F_Callback(t, status)

SpecOtaLive ==
    /\ SpecOta
    /\ \A t \in OtaThreads : WF_vars(F_Final(t) /\ OtaOnly)
    /\ WF_vars(F_TimerCb /\ OtaOnly)
    /\ \A t \in OtaThreads : WF_vars(F_Wait(t) /\ OtaOnly)

(***************************************************************************)
(* SpecFmt: __data_format applied to every record over every object model  *)
(* and every state of the id iterator.                                     *)
(***************************************************************************)
InitFmt ==
    /\ ObserverConstructed
    /\ TimerConstructed
    /\ PostDataConstructed
    /\ OmConstructed
    /\ ConnConstructed
    /\ UnpackConstructed
    /\ SotaConstructed
    /\ CorrConstructed /\ OtaImageConstructed /\ QuecConstructed /\ OtaConstructed
    /\ id_iter \in 0..NumIterLen
    /\ id_lock = NoThread
    /\ id_pc = [t \in Threads |-> "idle"]
    /\ id_cur = [t \in Threads |-> NoId]
    /\ id_ret = [t \in Threads |-> NoId]
    /\ id_hist = <<>>
    /\ om_props \in SUBSET FmtKeys
    /\ om_events \in SUBSET FmtKeys
    /\ f_data = <<>>
    /\ f_pc = "idle"
    /\ f_res = NoFmt
    /\ f_vals = <<>>
    /\ f_value = <<>>

NextFmt ==
    /\ \/ \E data \in FmtRecords : DataFormat(data)
       \/ Fmt_Again
    /\ UNCHANGED <<corrVars, imgVars, quecVars, otaVars, sotaVars, upVars,
                   connVars, omVars, pdVars, tmVars, obVars>>

SpecFmt == InitFmt /\ [][NextFmt]_vars

(***************************************************************************)
(* SpecStore: the result store of AliYunIot under a run of inbound         *)
(* messages that nobody awaits; the sender numbers them consecutively.     *)
(***************************************************************************)
InboundIds == 1..MaxInbound

\* the results __post_res holds
StoredIds == {i \in DOMAIN post_res : post_res[i].set}

InitStore ==
    /\ ObserverConstructed
    /\ TimerConstructed
    /\ PostDataConstructed
    /\ OmConstructed
    /\ ConnConstructed
    /\ UnpackConstructed
    /\ SotaConstructed
    /\ IdConstructed /\ CorrConstructedOver(InboundIds) /\ OtaImageConstructed
    /\ QuecConstructed /\ OtaConstructed /\ FmtConstructed

NextStore ==
    /\ \E id \in InboundIds, code \in Codes :
          /\ id = Cardinality(StoredIds) + 1
          /\ SubCb_DownloadReply(id, code)
    /\ UNCHANGED <<quecVars, otaVars, fmtVars, sotaVars, upVars, connVars,
                   omVars, pdVars, tmVars, obVars>>

SpecStore == InitStore /\ [][NextStore]_vars

(***************************************************************************)
(* SpecQueue: QuecThing from a state in which the result queue is full:    *)
(* QueueMax earlier reports were acknowledged after their waits had timed  *)
(* out, so their results are still in the queue.                           *)
(***************************************************************************)
\* the full queue: results of the reports 1 - QueueMax .. 0, oldest first
FullQueue(b) ==
    [i \in 1..QueueMax |-> [res |-> ((i % 2 = 0) = b), of |-> i - QueueMax, src |-> "ack"]]

InitQueue ==
    /\ ObserverConstructed
    /\ TimerConstructed
    /\ PostDataConstructed
    /\ OmConstructed
    /\ ConnConstructed
    /\ UnpackConstructed
    /\ SotaConstructed
    /\ IdConstructed /\ CorrConstructed /\ OtaImageConstructed
    /\ OtaConstructed /\ FmtConstructed
    /\ \E b \in BOOLEAN : QuecConstructedWith(FullQueue(b))

\* the records posted in SpecQueue: one declared key with a value
QueueRecords == {<<"om">>}

NextQueue ==
    /\ \/ \E items \in QueueRecords : Q_PostData(items)
       \/ \E ok \in BOOLEAN : Q_Report(ok)
       \/ Q_WaitStart
       \/ Q_WaitGet
       \/ Q_WaitStop
       \/ Q_Return
       \/ Q_Again
       \/ Q_TimerCb
       \/ \E r \in QReports : Q_EventAck(r, TRUE)
    /\ UNCHANGED <<idVars, corrVars, imgVars, otaVars, fmtVars, sotaVars,
                   upVars, connVars, omVars, pdVars, tmVars, obVars>>

SpecQueue == InitQueue /\ [][NextQueue]_vars

(***************************************************************************)
(* SpecWait: two threads call AliYunIot.post_data at the same time, each   *)
(* with a record of one message; their waits meet at _gps_read_lock.       *)
(***************************************************************************)
InitWait ==
    /\ ObserverConstructed
    /\ TimerConstructed
    /\ PostDataConstructed
    /\ OmConstructed
    /\ ConnConstructed
    /\ UnpackConstructed
    /\ SotaConstructed
    /\ IdConstructed /\ CorrConstructed /\ OtaImageConstructed
    /\ QuecConstructed /\ OtaConstructed /\ FmtConstructed

NextWait ==
    /\ \/ \E t \in Callers : PostData_Format(t, 1)
       \/ \E t \in Callers : \E sent \in SUBSET Range(c_ids[t]) : PostData_Publish(t, sent)
       \/ \E t \in Callers : W_Start(t)
       \/ \E t \in Callers : W_Check(t)
       \/ \E t \in Callers : W_Flag(t)
       \/ \E t \in Callers : W_Finish(t)
       \/ \E t \in Callers : Op_Again(t)
       \/ TimerFire
       \/ \E id \in AllIds, code \in Codes : SubCb_PostReply(id, code)
    /\ UNCHANGED <<quecVars, otaVars, fmtVars, sotaVars, upVars, connVars,
                   omVars, pdVars, tmVars, obVars>>

SpecWait == InitWait /\ [][NextWait]_vars

(***************************************************************************)
(* SpecSota: the two paths that stream an image block by block.  Either    *)
(* QuecThing receives MCU images, each in one or more segments, or         *)
(* AliOTA.__upgrade unpacks one downloaded archive.                        *)
(***************************************************************************)
\* the archives: up to MaxEntries entries and the end marker; the short
\* ones also without the end marker, and with an entry after it
EndMarker == [kind |-> "end", name |-> <<>>, size |-> 0]
Trailer == [kind |-> "file", name |-> OtherName, size |-> 1]

Archives ==
    LET Open(n) == [1..n -> Entries \ {EndMarker}]
    IN  UNION {{es \o <<EndMarker>> : es \in Open(n)} : n \in 0..MaxEntries}
            \cup UNION {Open(n) : n \in 0..(MaxEntries - 1)}
            \cup UNION {{es \o <<EndMarker, Trailer>> : es \in Open(n)} :
                            n \in 0..(MaxEntries - 1)}

InitSota ==
    /\ ObserverConstructed
    /\ TimerConstructed
    /\ PostDataConstructed
    /\ OmConstructed
    /\ ConnConstructed
    /\ \/ UnpackConstructed
       \/ \E es \in Archives : UnpackEntered(es)
    /\ IdConstructed /\ CorrConstructed /\ OtaImageConstructed
    /\ QuecConstructed /\ OtaConstructed /\ FmtConstructed
    /\ SotaConstructed

NextSota ==
    \/ /\ u_pc = "off"
       /\ \/ \E size \in SotaSizes : Ev_10701(size)
          \/ \E need \in SotaSizes : Ev_10703(need)
          \/ \E md5ok, updok \in BOOLEAN : S_Block(md5ok, updok)
          \/ S_Notify
       /\ UNCHANGED <<idVars, corrVars, imgVars, quecVars, otaVars, fmtVars,
                      upVars, connVars, omVars, pdVars, tmVars, obVars>>
    \/ /\ \/ U_Header
          \/ U_Block
          \/ U_Register
          \/ U_Fault
          \/ \E raises \in BOOLEAN : U_Except(raises)
       /\ UNCHANGED <<idVars, corrVars, imgVars, quecVars, otaVars, fmtVars,
                      sotaVars, connVars, omVars, pdVars, tmVars, obVars>>

SpecSota == InitSota /\ [][NextSota]_vars

(***************************************************************************)
(* SpecConn: a session whose init is called up to MaxInits times, with and *)
(* without enforce, while the connection comes and goes.                   *)
(***************************************************************************)
InitConn ==
    /\ ObserverConstructed
    /\ TimerConstructed
    /\ PostDataConstructed
    /\ OmConstructed
    /\ UnpackConstructed
    /\ SotaConstructed
    /\ IdConstructed /\ CorrConstructed /\ OtaImageConstructed
    /\ QuecConstructed /\ OtaConstructed /\ FmtConstructed
    /\ \E events \in SUBSET {EventNames[i] : i \in 1..Len(EventNames)} :
           ConnConstructedWith(events)

NextConn ==
    /\ \/ \E enforce, mqttok, started \in BOOLEAN : Ali_Init(enforce, mqttok, started)
       \/ Net_Drop
       \/ Net_Reconnect
    /\ UNCHANGED <<idVars, corrVars, imgVars, quecVars, otaVars, fmtVars,
                   sotaVars, upVars, omVars, pdVars, tmVars, obVars>>

SpecConn == InitConn /\ [][NextConn]_vars

(***************************************************************************)
(* SpecOm: up to MaxRegs registrations in a QuecObjectModel.               *)
(***************************************************************************)
InitOm ==
    /\ ObserverConstructed
    /\ TimerConstructed
    /\ PostDataConstructed
    /\ UnpackConstructed
    /\ SotaConstructed
    /\ ConnConstructed
    /\ IdConstructed /\ CorrConstructed /\ OtaImageConstructed
    /\ QuecConstructed /\ OtaConstructed /\ FmtConstructed
    /\ OmConstructed

\* the registrations of a schema: within a domain no two keys carry the
\* same wire id
NextOm ==
    /\ \/ \E om_type \in {"properties", "events"}, om_key \in OmKeys,
          om_key_id \in WireIds :
            /\ \A k \in OmKeys \ {om_key} :
                   OmItems(om_type)[k] # om_key_id
            /\ Om_SetItem(om_type, om_key, om_key_id)
       \/ \E ids \in SUBSET WireIds \ {{}} : Ev_10210(ids)
       \/ \E ids \in SUBSET WireIds \ {{}} : Ev_10211(ids)
    /\ UNCHANGED <<idVars, corrVars, imgVars, quecVars, otaVars, fmtVars,
                   sotaVars, upVars, connVars, pdVars, tmVars, obVars>>

SpecOm == InitOm /\ [][NextOm]_vars

(***************************************************************************)
(* SpecEnc: __data_format applied to the keys and values of a record, over *)
(* the object models a schema can give: within a domain no two keys carry  *)
(* the same wire id, within a struct no two sub-fields do.                 *)
(***************************************************************************)
Injective(f) == \A a, b \in DOMAIN f : (a # b /\ f[a] # NoWire) => f[a] # f[b]

InitEnc ==
    /\ ObserverConstructed
    /\ TimerConstructed
    /\ PostDataConstructed
    /\ UnpackConstructed
    /\ SotaConstructed
    /\ ConnConstructed
    /\ IdConstructed /\ CorrConstructed /\ OtaImageConstructed
    /\ QuecConstructed /\ OtaConstructed /\ FmtConstructed
    /\ qm_props \in {f \in [OmKeys -> {NoWire} \cup WireIds] : Injective(f)}
    /\ qm_events \in {f \in [OmKeys -> {NoWire} \cup WireIds] : Injective(f)}
    /\ items_id = [i \in WireIds |->
                     IF \E k \in OmKeys : qm_events[k] = i
                     THEN CHOOSE k \in OmKeys : qm_events[k] = i
                     ELSE IF \E k \in OmKeys : qm_props[k] = i
                     THEN CHOOSE k \in OmKeys : qm_props[k] = i
                     ELSE NoKey]
    /\ qm_regs = 0
    /\ \E sp, se \in {f \in [Fields -> {NoWire} \cup WireIds] : Injective(f)} :
           qm_struct = [t \in {"properties", "events"} |->
                          [k \in OmKeys |->
                              IF t = "properties"
                              THEN (IF qm_props[k] # NoWire THEN sp ELSE NoStruct)
                              ELSE (IF qm_events[k] # NoWire THEN se ELSE NoStruct)]]
    /\ e_k = NoKey
    /\ e_v = Scalar(0)
    /\ e_res = NoEnc
    /\ EvConstructed

\* one call in each behaviour: the function has no memory
NextEnc ==
    /\ e_k = NoKey
    /\ \E k \in OmKeys, v \in EncValues : Q_DataFormat(k, v)
    /\ UNCHANGED <<idVars, corrVars, imgVars, quecVars, otaVars, fmtVars,
                   sotaVars, upVars, connVars, pdVars, tmVars, obVars>>

SpecEnc == InitEnc /\ [][NextEnc]_vars

(***************************************************************************)
(* SpecData: post_data called with the dictionaries over three keys, every *)
(* report and every wait succeeding or failing.                            *)
(***************************************************************************)
InitData ==
    /\ ObserverConstructed
    /\ TimerConstructed
    /\ UnpackConstructed
    /\ SotaConstructed
    /\ ConnConstructed
    /\ OmConstructed
    /\ IdConstructed /\ CorrConstructed /\ OtaImageConstructed
    /\ QuecConstructed /\ OtaConstructed /\ FmtConstructed
    /\ PostDataConstructed

NextData ==
    /\ \/ \E data \in [PdKeySet -> PdValues \cup {PdAbsent}] : PD_Call(data)
       \/ \E reported, acked \in BOOLEAN : PD_Item(reported, acked)
       \/ \E whole \in BOOLEAN : PD_Return(whole)
       \/ PD_Again
    /\ UNCHANGED <<idVars, corrVars, imgVars, quecVars, otaVars, fmtVars,
                   sotaVars, upVars, connVars, omVars, tmVars, obVars>>

SpecData == InitData /\ [][NextData]_vars

(***************************************************************************)
(* SpecTimer: the threads of SpecWait, with the expiry of the timer and    *)
(* the assignment of its callback as two steps.                            *)
(***************************************************************************)
InitTimer ==
    /\ ObserverConstructed
    /\ PostDataConstructed
    /\ OmConstructed
    /\ ConnConstructed
    /\ UnpackConstructed
    /\ SotaConstructed
    /\ IdConstructed /\ CorrConstructed /\ OtaImageConstructed
    /\ QuecConstructed /\ OtaConstructed /\ FmtConstructed
    /\ TimerConstructed

NextTimer ==
    \/ /\ \/ \E t \in Callers : PostData_Format(t, 1)
          \/ \E t \in Callers : \E sent \in SUBSET Range(c_ids[t]) : PostData_Publish(t, sent)
          \/ \E t \in Callers : W_Start(t)
          \/ \E t \in Callers : W_Check(t)
          \/ \E t \in Callers : W_Flag(t)
          \/ \E t \in Callers : W_Finish(t)
          \/ \E t \in Callers : Op_Again(t)
          \/ \E id \in AllIds, code \in Codes : SubCb_PostReply(id, code)
       /\ UNCHANGED <<quecVars, otaVars, fmtVars, sotaVars, upVars, connVars,
                      omVars, pdVars, tmVars, obVars>>
    \/ /\ \/ Timer_Expire
          \/ Timer_Cb
       /\ UNCHANGED <<quecVars, otaVars, fmtVars, sotaVars, upVars, connVars,
                      omVars, pdVars, obVars>>

SpecTimer == InitTimer /\ [][NextTimer]_vars

(***************************************************************************)
(* SpecNotify: announcements with their notifications, cancellations and   *)
(* starts of transfers.                                                    *)
(***************************************************************************)
InitNotify ==
    /\ TimerConstructed
    /\ PostDataConstructed
    /\ OmConstructed
    /\ ConnConstructed
    /\ UnpackConstructed
    /\ SotaConstructed
    /\ IdConstructed /\ CorrConstructed /\ OtaImageConstructed
    /\ QuecConstructed /\ OtaConstructed /\ FmtConstructed
    /\ ObserverConstructed

NextNotify ==
    /\ \/ \E img \in Images : Ota_Notify(img)
       \/ Ota_Cancel /\ UNCHANGED obVars
       \/ \E t \in OtaThreads : Ota_Start(t)
       \/ \E t \in OtaThreads : S_Begin(t) /\ UNCHANGED obVars
       \/ \E t \in OtaThreads : F_Begin(t) /\ UNCHANGED obVars
       \/ \E t \in OtaThreads, res \in {"good", "corrupt", "fail"} :
             S_Download(t, res) /\ UNCHANGED obVars
       \/ \E t \in OtaThreads, ok \in BOOLEAN : F_Http(t, ok) /\ UNCHANGED obVars
    /\ UNCHANGED <<idVars, corrVars, quecVars, fmtVars, sotaVars, upVars,
                   connVars, omVars, pdVars, tmVars>>

SpecNotify == InitNotify /\ [][NextNotify]_vars

(***************************************************************************)
(* C1: whatever ids were issued and in whatever order their replies reach  *)
(* __ali_sub_cb, what __get_post_res(id) returns is the outcome carried by *)
(* an inbound message whose id field equals id (or the False the poll loop *)
(* stores once the timer has fired), never the outcome of a message        *)
(* carrying another id; a wait during which the timer did not fire returns *)
(* the outcome of a message carrying id.                                   *)
(***************************************************************************)
C1_ResultMatchesId ==
    \A t \in Callers :
        w_res[t].set =>
            /\ w_res[t].by \in {w_res[t].id, TimerSrc}
            /\ w_res[t].to = "none" => w_res[t].by = w_res[t].id
            /\ w_res[t].by = TimerSrc => ~w_res[t].res

\* a batch of two: both replies are in, with different outcomes, and the
\* wait for the first id has returned the outcome of its own reply
C1_Witness ==
    /\ c_pc["a"] = "w_start"
    /\ Len(c_ids["a"]) = 2
    /\ c_k["a"] = 2
    /\ w_res["a"].set
    /\ w_res["a"].by = c_ids["a"][1]
    /\ ~w_res["a"].res
    /\ post_res[c_ids["a"][2]].set
    /\ post_res[c_ids["a"][2]].res

\* the step in which __get_post_res of caller t returns
WaitReturns(t) == c_pc[t] = "w_fin" /\ c_pc'[t] # "w_fin"

ImageEmpty == ota_module = "" /\ ota_version = "" /\ ota_files = EmptyFiles

C2_WaitReturnsOwnResult == q_res.set => q_res.of = q_res.rep

(***************************************************************************)
(* C6: in __start_sota, once the MD5 computed over a downloaded part       *)
(* differs from the declared checksum, __upgrade is invoked neither for    *)
(* that part nor for any later part of the image.                          *)
(***************************************************************************)
C6_NoUpgradeAfterMismatch ==
    \A t \in OtaThreads :
        th_fail[t].stage = "md5" =>
            /\ \A j \in th_up[t] : j < th_fail[t].part
            /\ th_pc[t] \notin {"upgrade", "download", "check"}

\* the second part of a two-part image failed its check after the first
\* part was unpacked, and the thread has left the loop
C6_Witness ==
    \E t \in OtaThreads :
        /\ th_kind[t] = "sota"
        /\ Len(th_files[t]) = 2
        /\ th_fail[t] = [stage |-> "md5", part |-> 2]
        /\ th_up[t] = {1}
        /\ th_pc[t] = "done"

(***************************************************************************)
(* C7: in __start_sota the update flag is set and the restart triggered    *)
(* only if every part of the image was downloaded, passed the MD5 check    *)
(* and was unpacked; not after a failed download, a checksum mismatch or   *)
(* an unpack failure.                                                      *)
(***************************************************************************)
C7_FlagOnlyWhenCompleted ==
    \A t \in OtaThreads :
        (th_kind[t] = "sota" /\ th_pc[t] \in {"restart", "done"}) =>
            /\ th_fail[t] = NoFail
            /\ th_up[t] = 1..Len(th_files[t])

C10_CancelStopsTransfer ==
    \A t \in OtaThreads :
        (th_kind[t] = "sota" /\ th_cancel[t] # NoPart) =>
            /\ \A j \in th_up[t] : j < th_cancel[t]
            /\ th_pc[t] \notin {"restart", "done"}

\* the progress code that belongs to a failing stage
StageCode(stage) ==
    CASE stage = "download" -> StepDownloadFailed
      [] stage = "md5" -> StepVerifyFailed
      [] stage = "unpack" -> StepUnpackFailed
      [] OTHER -> StepFailed

\* the step in which the one-hour timer expires (__ota_timer_callback runs)
OtaTimerExpires == ota_timer /\ ~ota_timer' /\ th_pc' = th_pc

(***************************************************************************)
(* C11: during an AliOTA transfer every failing stage results in a         *)
(* progress message published with the matching code: -2 when the download *)
(* fails, -3 when the MD5 check fails, -4 when unpacking fails, -1 when the *)
(* one-hour download timer expires.                                        *)
(***************************************************************************)
C11_FailureIsReported ==
    [][/\ \A t \in OtaThreads :
             th_fail'[t] # th_fail[t] => StageCode(th_fail'[t].stage) \in o_reported'
       /\ OtaTimerExpires => StepFailed \in o_reported']_vars

\* the messages __data_format returned
FmtMsgs == f_res.property \o f_res.event

\* every message has its own id and the ids of the batch are pairwise distinct
FmtIdsDistinct ==
    /\ f_res.msg_ids = [i \in 1..Len(FmtMsgs) |-> FmtMsgs[i].id]
    /\ \A i, j \in 1..Len(FmtMsgs) : i # j => FmtMsgs[i].id # FmtMsgs[j].id

\* one property message holding all and only the record's declared
\* properties, none if the record has no such key
FmtPropertyExact ==
    LET declared == Range(f_data) \cap om_props
    IN  IF declared = {}
        THEN f_res.property = <<>>
        ELSE /\ Len(f_res.property) = 1
             /\ f_res.property[1].params = declared
             /\ f_res.property[1].method = "property"

\* exactly one event message for each key of K, and no other event message
FmtEventsExactly(K) ==
    /\ \A k \in K :
          Cardinality({i \in 1..Len(f_res.event) : f_res.event[i].method = k}) = 1
    /\ \A i \in 1..Len(f_res.event) :
          f_res.event[i].method \in K /\ f_res.event[i].params = {f_res.event[i].method}

(***************************************************************************)
(* C12 (as claimed): the messages built for a record are exactly one       *)
(* property-post message holding all and only the record's declared        *)
(* properties (none if there is none) and one event-post message per       *)
(* record key that is a declared event; every message has its own id and   *)
(* the ids of the batch are pairwise distinct.                             *)
(***************************************************************************)
C12_MessagesBuilt ==
    f_pc = "done" =>
        /\ FmtPropertyExact
        /\ FmtEventsExactly(Range(f_data) \cap om_events)
        /\ FmtIdsDistinct

(***************************************************************************)
(* C12 (amended): as above, with one event-post message per record key     *)
(* that is a declared event and not also a declared property: a key        *)
(* declared as both goes into the property message only.                   *)
(***************************************************************************)
C12_MessagesBuiltPartition ==
    f_pc = "done" =>
        /\ FmtPropertyExact
        /\ FmtEventsExactly((Range(f_data) \cap om_events) \ om_props)
        /\ FmtIdsDistinct

\* a record with two declared properties, a declared event and nothing else
\* was formatted into a property message and an event message
C12_Witness ==
    /\ f_pc = "done"
    /\ Len(f_data) = 3
    /\ Cardinality(Range(f_data) \cap om_props) = 2
    /\ Cardinality((Range(f_data) \cap om_events) \ om_props) = 1
    /\ Len(f_res.property) = 1
    /\ Len(f_res.event) = 1
    /\ Len(f_res.msg_ids) = 2

\* AliYunIot.post_data: True only after every wait returned True, and no
\* further wait once a wait of the batch has returned False
AliPostAllWaitsSucceeded ==
    \A t \in Callers :
        c_op[t] = "post" =>
            /\ (c_pc[t] = "done" /\ c_ret[t] = "True") => c_ok[t]
            /\ ~c_ok[t] => c_pc[t] \notin {"w_start", "w_check", "w_flag", "w_fin"}

\* QuecThing.post_data: True only if the report it waited for last was
\* acknowledged as success
QuecPostAllReportsAcked ==
    (q_pc = "done" /\ q_ret = "True" /\ q_res.set) =>
        /\ q_res.rep \notin q_unacked
        /\ q_res.of = q_res.rep
        /\ q_res.src = "ack"
        /\ q_res.res

(***************************************************************************)
(* C13: post_data returns True only if the wait for every message it       *)
(* published succeeded: AliYunIot returns False as soon as one id of the   *)
(* batch times out or is answered with a non-success code; QuecThing       *)
(* returns False if any report of the record is not acknowledged as        *)
(* success.                                                                *)
(***************************************************************************)
C13_TrueOnlyIfAllWaitsSucceeded ==
    AliPostAllWaitsSucceeded /\ QuecPostAllReportsAcked

\* AliYunIot.__data_format: a record key declared in neither domain is in no
\* message and draws no id; every declared key of the record is in a message
FmtSkipsUndeclared ==
    f_pc = "done" =>
        LET declared == Range(f_data) \cap (om_props \cup om_events)
            inMsgs == UNION {FmtMsgs[i].params : i \in 1..Len(FmtMsgs)}
        IN  /\ inMsgs = declared
            /\ Len(f_res.msg_ids) = Len(FmtMsgs)
            /\ Len(FmtMsgs) =
                  (IF Range(f_data) \cap om_props = {} THEN 0 ELSE 1)
                  + Cardinality((Range(f_data) \cap om_events) \ om_props)

\* a step of the loop of QuecThing.post_data at the next key of the record
QuecLoopStep ==
    /\ q_pc = "loop"
    /\ q_items # <<>>
    /\ (q_items' # q_items \/ q_pc' # q_pc)

\* the loop passes over the key: nothing is reported, the result so far is
\* kept and the loop goes on with the rest of the record
QuecKeySkipped ==
    /\ q_rep' = q_rep
    /\ q_unacked' = q_unacked
    /\ q_loc' = q_loc
    /\ q_items' = Tail(q_items)
    /\ q_pc' = "loop"

\* the key is handed to quecIot; an accepted report is waited for, a refused
\* one ends the loop with False
QuecKeyReported ==
    \/ /\ q_rep' = q_rep + 1
       /\ q_rep + 1 \in q_unacked'
       /\ q_items' = q_items
       /\ q_pc' = "w_start"
    \/ /\ q_rep' = q_rep
       /\ ~q_loc'
       /\ q_items' = <<>>

\* the loop skips the kinds of skip and reports the kinds of report
QuecLoopTreats(skip, report) ==
    QuecLoopStep =>
        /\ Head(q_items) \in skip => QuecKeySkipped
        /\ Head(q_items) \in report => QuecKeyReported

AliPublishFailed(t) ==
    /\ c_pc[t] = "pub"
    /\ c_pc'[t] # "pub"
    /\ ~(Range(c_ids[t]) \subseteq inflight')

\* QuecThing.post_data: quecIot refused the report of the key at hand
QuecReportFailed ==
    /\ q_pc = "loop"
    /\ q_items # <<>>
    /\ Head(q_items) \in QReportKinds
    /\ q_items' # q_items
    /\ q_rep' = q_rep

\* QuecThing.post_data: a refused report ends the loop with False, and no
\* wait is started for it
QuecReportFailureAborts ==
    [][QuecReportFailed =>
            /\ q_items' = <<>>
            /\ ~q_loc'
            /\ q_unacked' = q_unacked
            /\ q_pc' = "loop"
            /\ q_timer' = q_timer]_vars

(***************************************************************************)
(* C15: when a publish issued by post_data fails, the batch is aborted:    *)
(* nothing more of the record is published, the failed message is not      *)
(* waited for and post_data returns False, in AliYunIot.post_data and in   *)
(* QuecThing.post_data.                                                    *)
(***************************************************************************)
C15_PublishFailureAborts ==
    /\ [][\A t \in Callers :
            AliPublishFailed(t) => c_pc'[t] = "done" /\ c_ret'[t] = "False"]_vars
    /\ QuecReportFailureAborts

(***************************************************************************)
(* C16: AliYunIot.post_data never lets a fault escape to its caller: for   *)
(* every record and every state of the transport (not connected, publish   *)
(* raising, a result missing from the bookkeeping) it returns True or      *)
(* False.                                                                  *)
(***************************************************************************)
C16_PostDataReturnsBool ==
    \A t \in Callers :
        (c_op[t] = "post" /\ c_pc[t] = "done") => c_ret[t] \in {"True", "False"}

\* a post_data whose second publish raised after the first message went out:
\* it returned False without waiting
C16_Witness ==
    \E t \in Callers :
        /\ c_op[t] = "post"
        /\ c_pc[t] = "done"
        /\ c_ret[t] = "False"
        /\ Len(c_ids[t]) = 2
        /\ Len(c_log[t]) = 1
        /\ c_log[t][1].id \in inflight
        /\ w_res[t].id = NoId

(***************************************************************************)
(* C17: AliYunIot.ota_action(1, module) with a non-empty module publishes  *)
(* a progress report with step 1, starts the transfer if and only if the   *)
(* report is acknowledged, and returns True or False to its caller         *)
(* without raising.                                                        *)
(***************************************************************************)
C17_ConfirmReturnsBool ==
    act_ret # "none" => act_ret \in {"True", "False"}

\* the wait at hand of post_data ran into its timer: the result it is about
\* to pop is the False stored when __breack_flag was seen, a full timeout
\* period after self.__ali_timer.start(1000 * 10, ...)
WaitTimedOut(t) ==
    /\ c_pc[t] = "w_fin"
    /\ post_res[CurId(t)].set
    /\ post_res[CurId(t)].by = TimerSrc

\* the wait before it, in the same post_data, ran into its timer as well
PreviousWaitTimedOut(t) ==
    /\ c_k[t] > 1
    /\ w_res[t].set
    /\ w_res[t].id = c_ids[t][c_k[t] - 1]
    /\ w_res[t].by = TimerSrc

(***************************************************************************)
(* C18: AliYunIot.post_data returns at most one timeout period (10 s)      *)
(* after it starts waiting, whatever the number of messages of the batch   *)
(* and also when no awaited id is ever answered: no post_data sits through *)
(* two timeout periods.                                                    *)
(***************************************************************************)
C18_OneTimeoutPerPost ==
    \A t \in Callers :
        c_op[t] = "post" => ~(WaitTimedOut(t) /\ PreviousWaitTimedOut(t))

(***************************************************************************)
(* C19: in AliYunIot, after any sequence of publishes, replies, timeouts   *)
(* and unsolicited inbound messages, __post_res never holds more than 16   *)
(* results: a result that nobody awaits is evicted once 16 newer results   *)
(* are buffered.                                                           *)
(***************************************************************************)
C19_StoreHoldsAtMost16 == Cardinality(StoredIds) <= 16

\* a step that adds a result to the queue
QuecPutStep == q_queue' # q_queue /\ Len(q_queue') >= Len(q_queue)

\* the put into a full queue takes the oldest result out and appends the new
\* one behind the others, which keep their order
QuecPutEvictsOldest ==
    (QuecPutStep /\ Len(q_queue) = QueueMax) =>
        /\ Len(q_queue') = QueueMax
        /\ SubSeq(q_queue', 1, QueueMax - 1) = Tail(q_queue)
        /\ q_queue'[QueueMax] \notin Range(q_queue)
        /\ q_evicted' = q_evicted \cup {Head(q_queue)}

\* a result taken out by a put is neither in the queue nor in the hands of a
\* wait
QuecEvictedIsGone ==
    \A e \in q_evicted :
        /\ e \notin Range(q_queue)
        /\ q_got # e
        /\ q_res.set => [res |-> q_res.res, of |-> q_res.of, src |-> q_res.src] # e

InWait(t) == c_pc[t] \in {"w_check", "w_flag", "w_fin"}

(***************************************************************************)
(* C21: in AliYunIot at most one execution of __get_post_res is in flight  *)
(* at any time: a second call does not start its timer or its poll loop    *)
(* before the first has stopped the timer, reset the abort flag and        *)
(* removed its result.                                                     *)
(***************************************************************************)
C21_OneWaitInFlight ==
    /\ [](\A t, u \in Callers : (InWait(t) /\ InWait(u)) => t = u)
    /\ [](\A t \in Callers : InWait(t) => gps_read_lock = t)
    /\ [][\A t \in Callers :
            (c_pc[t] = "w_start" /\ InWait(t)') =>
                \A u \in Callers \ {t} : ~InWait(u)]_vars

\* one thread polls for its reply while the other, its messages published,
\* is held at the lock
C21_Witness ==
    /\ InWait("a")
    /\ c_pc["b"] = "w_start"
    /\ gps_read_lock = "a"
    /\ c_op["b"] = "post"

\* QuecThing.__event_cb has not returned: it is inside the
\* __sota_upgrade_start it called for the segment of a 10703 event
EventCbInTransfer == s_pc \in {"loop", "end"}

(***************************************************************************)
(* C22: in both backends the download and install work runs on a context   *)
(* other than the inbound-message context: the inbound callback            *)
(* (AliYunIot.__ali_sub_cb, QuecThing.__event_cb) returns without          *)
(* executing the transfer, so inbound messages delivered during a transfer *)
(* are still dispatched.  AliYunIot.__ali_sub_cb is one step of the model  *)
(* (SubCb_Upgrade) and the transfer has threads of its own (StartOta); the *)
(* formula is the QuecThing half.                                          *)
(***************************************************************************)
C22_CallbackDoesNotTransfer == ~EventCbInTransfer

\* the sum of the first n elements of a sequence of numbers
RECURSIVE SumTo(_, _)
SumTo(s, n) == IF n = 0 THEN 0 ELSE SumTo(s, n - 1) + s[n]

\* every request of reads is for min(block, bytes remaining of size), and
\* for at least one byte
BlocksFit(reads, size, block) ==
    \A i \in 1..Len(reads) :
        /\ reads[i] = Min(block, size - SumTo(reads, i - 1))
        /\ reads[i] > 0

\* __sota_upgrade_start has left its loop
QuecLoopOver == s_pc = "end"

\* AliOTA.__upgrade has left the "while last_size > 0" of an entry
UnzipLoopOver == (u_pc \in {"head", "reg"} \/ u_ret = "True") /\ u_reads # <<>>

ImageStreamed == s_file_size > 0 /\ s_total = s_file_size

\* check_md5 was called for the image
Md5Checked == s_md5 # "none"

(***************************************************************************)
(* C24: in QuecThing the MD5 verification and the flashing of an MCU image *)
(* are triggered when, and only when, the cumulative number of bytes       *)
(* streamed for that image equals the total declared by the 10701 event,   *)
(* also when the image is delivered in several 10703 segments.             *)
(***************************************************************************)
C24_VerifyAtDeclaredTotal == Md5Checked <=> ImageStreamed

(***************************************************************************)
(* C25: in QuecThing the update flag is set only after the MD5 check of    *)
(* the streamed image succeeded and the file update succeeded; it is never *)
(* set for an image whose MD5 check failed, whose file update failed or    *)
(* whose stream is incomplete.                                             *)
(***************************************************************************)
C25_FlagOnlyAfterVerifiedUpdate ==
    /\ [](s_flag => (ImageStreamed /\ s_md5 = "ok" /\ s_upd = "ok"))
    /\ [][(~s_flag /\ s_flag') =>
            (ImageStreamed' /\ s_md5' = "ok" /\ s_upd' = "ok")]_vars

\* the flag is set for an image that was streamed whole and passed both
C25_Witness == s_flag /\ s_pc = "end" /\ s_md5 = "ok" /\ s_upd = "ok"

(***************************************************************************)
(* C26: QuecThing notifies its observers of a pending power restart only   *)
(* after an MCU image was fully streamed, verified and registered with the *)
(* update flag set; no restart notice is sent when the MD5 check failed,   *)
(* the file update failed or the transfer is incomplete.                   *)
(***************************************************************************)
C26_RestartOnlyAfterInstall ==
    s_note.set =>
        /\ s_note.total = s_note.size
        /\ s_note.md5 = "ok"
        /\ s_note.upd = "ok"
        /\ s_note.flag

\* the entries of an archive before its first end marker
RECURSIVE UpToEnd(_)
UpToEnd(es) ==
    IF es = <<>> THEN <<>>
    ELSE IF Head(es).kind = "end" THEN <<>>
    ELSE <<Head(es)>> \o UpToEnd(Tail(es))

\* the archive of a directory "sub/", a file "sub/a.txt" holding "hello",
\* and the end marker
ExampleArchive ==
    <<[kind |-> "dir", name |-> DirName, size |-> 0],
      [kind |-> "file", name |-> FileName, size |-> 5],
      EndMarker>>

(***************************************************************************)
(* C27: AliOTA.__upgrade applied to a decompressed stream made of entry    *)
(* headers (name field, ASCII octal size field), each followed by exactly  *)
(* size payload bytes, creates one directory per entry with size 0 and a   *)
(* non-empty name, writes one file with exactly its payload per entry with *)
(* size > 0 (the later entry of a name replacing the earlier), stops at    *)
(* the first entry with size 0 and an empty name, and registers a manifest *)
(* holding exactly one (path, size) entry per file entry, in stream order. *)
(* For the stream dir "sub/", file "sub/a.txt" ("hello"), end marker, this *)
(* gives one directory, one file containing "hello" and a manifest with    *)
(* one 5-byte entry.                                                       *)
(***************************************************************************)
C27_UnpackMatchesArchive ==
    u_ret = "True" =>
        LET done == UpToEnd(u_entries)
            files == SelectSeq(done, LAMBDA e : e.kind = "file")
        IN  /\ u_dirs = {done[i].name : i \in {j \in 1..Len(done) : done[j].kind = "dir"}}
            /\ DOMAIN u_fs = {files[i].name : i \in 1..Len(files)}
            /\ \A i \in 1..Len(files) :
                   (\A j \in (i + 1)..Len(files) : files[j].name # files[i].name)
                       => u_fs[files[i].name] = Payload(files[i].name, files[i].size)
            /\ u_list = [i \in 1..Len(files) |->
                            [file_name |-> <<"/", "u", "s", "r", "/">> \o files[i].name,
                             size |-> files[i].size]]
            /\ u_reg = u_list
            /\ Len(done) < Len(u_entries) => u_pos = Len(StreamOf(done)) + HeaderLen
            /\ u_entries = ExampleArchive =>
                   /\ u_dirs = {<<"s", "u", "b", "/">>}
                   /\ DOMAIN u_fs = {FileName}
                   /\ u_fs[FileName] = <<"h", "e", "l", "l", "o">>
                   /\ Len(u_list) = 1 /\ u_list[1].size = 5

\* the example archive was unpacked
C27_Witness ==
    /\ u_ret = "True"
    /\ u_entries = ExampleArchive
    /\ u_dirs # {}
    /\ Len(u_reg) = 1

\* __upgrade of thread t went into its "except Exception" branch
UnpackFaulted(t) == th_kind[t] = "sota" /\ th_fail[t].stage = "unpack"

(***************************************************************************)
(* C28: a fault raised while AliOTA.__upgrade unpacks the archive (bad     *)
(* size field, read or write error, manifest registration error) is caught *)
(* inside __upgrade: the function returns False and no exception           *)
(* propagates to the transfer thread.                                      *)
(***************************************************************************)
C28_UnpackFaultIsCaught ==
    \A t \in OtaThreads : UnpackFaulted(t) => th_pc[t] # "crashed"

\* the step is a call of init
InitCalled == i_calls' = i_calls + 1

\* the step left the client, its subscriptions and its connection alone
ClientUntouched == UNCHANGED <<i_ali, i_made, i_up, i_subs, i_closed>>

\* the current client carries exactly one set of subscriptions
OneSubscriptionSet ==
    i_ali # NoClient => i_subs[i_ali] = SubscribeTopics(i_events)

\* init(enforce=False) on a connected session returns True and touches nothing
UnforcedInitIdempotent ==
    (InitCalled /\ ~i_enf' /\ get_status) => (i_ret' = "True" /\ ClientUntouched)

\* init(enforce=True) disconnects the client it finds and makes a new one
EnforcedInitCloses ==
    (InitCalled /\ i_enf') =>
        /\ i_ali # NoClient => i_ali \in i_closed'
        /\ i_made' = i_made + 1

\* after the step the session runs on the client just made, subscribed once
SubscribedAnew ==
    /\ i_ali' = i_made'
    /\ i_subs'[i_ali'] = SubscribeTopics(i_events)

OmRegistered(k) == qm_props[k] # NoWire \/ qm_events[k] # NoWire

(***************************************************************************)
(* C30: for every item registered in QuecObjectModel with set_item, after  *)
(* any sequence of further registrations (re-registering a key with        *)
(* another wire id, a property and an event that carry the same wire id),  *)
(* encoding the key with QuecThing.__data_format yields the item's current *)
(* wire id and looking that wire id up in items_id yields the key again.   *)
(***************************************************************************)
C30_EncodeThenLookupRoundTrips ==
    \A k \in OmKeys :
        OmRegistered(k) =>
            /\ DataFormatId(k) \in {qm_props[k], qm_events[k]} \ {NoWire}
            /\ ReverseLookup(DataFormatId(k)) = k

\* k is a declared event or a declared property
Declared(k) == qm_events[k] # NoWire \/ qm_props[k] # NoWire

(***************************************************************************)
(* C31: QuecThing.__data_format(key, value) returns the unknown-key result *)
(* (False) exactly when key is neither a declared event nor a declared     *)
(* property; otherwise it returns a one-entry map from the key's wire id   *)
(* to the value, where for a composite value every sub-field declared in   *)
(* the item's nested mapping is replaced by its wire id and every other    *)
(* sub-field is kept under its original name, with its value unchanged.    *)
(***************************************************************************)
C31_EncodeTranslatesDeclared ==
    e_k # NoKey =>
        /\ ~e_res.ok <=> ~Declared(e_k)
        /\ e_res.ok =>
            LET item == IF qm_events[e_k] # NoWire THEN "events" ELSE "properties"
                nested == qm_struct[item][e_k]
            IN  /\ e_res.id = (IF item = "events" THEN qm_events[e_k] ELSE qm_props[e_k])
                /\ e_res.v.dict = e_v.dict
                /\ ~e_v.dict => e_res.v = e_v
                /\ e_v.dict =>
                    /\ Cardinality(DOMAIN e_res.v.fields) = Cardinality(DOMAIN e_v.fields)
                    /\ \A ik \in DOMAIN e_v.fields :
                          LET key == IF nested[ik] # NoWire
                                     THEN [id |-> nested[ik], name |-> ""]
                                     ELSE [id |-> 0, name |-> ik]
                          IN  /\ key \in DOMAIN e_res.v.fields
                              /\ e_res.v.fields[key] = e_v.fields[ik]

\* an event's value with one declared and one undeclared sub-field was
\* encoded: the first went under its wire id, the second under its name
C31_Witness ==
    /\ e_res.ok
    /\ e_k = "sos_alert"
    /\ qm_events["sos_alert"] # NoWire
    /\ e_v.dict /\ DOMAIN e_v.fields = Fields
    /\ qm_struct["events"]["sos_alert"]["lat"] # NoWire
    /\ qm_struct["events"]["sos_alert"]["lng"] = NoWire
    /\ NameKey("lng") \in DOMAIN e_res.v.fields

\* the step is the callback for a downlink message of event 5
EventDelivered == ev_in' # ev_in

(***************************************************************************)
(* C32: in QuecThing.__event_cb a wire id received from the cloud that has *)
(* no mapping in items_id is a silent miss: for an object-model property   *)
(* push (event 5, code 10210) as for a query (event 5, code 10211) the     *)
(* unmapped id is skipped, the callback does not fail, and the mapped ids  *)
(* of the same message are still delivered to observers.                   *)
(***************************************************************************)
C32_UnmappedIdIsSilentMiss ==
    [][EventDelivered =>
        /\ ~ev_raised'
        /\ ev_out'.keys = {items_id[i] : i \in MappedIds(ev_in'.ids)}]_vars

\* post_data has returned (or raised) and the caller looks at data
PostDataOver == pd_pc = "done"

(***************************************************************************)
(* C33: after QuecThing.post_data(data) returns, every item of data whose  *)
(* report was acknowledged as success has been removed from data, and      *)
(* every item that was not posted successfully is still present with its   *)
(* original value.                                                         *)
(***************************************************************************)
C33_PostedItemsRemoved ==
    PostDataOver =>
        \A k \in PdKeySet :
            pd_orig[k] # PdAbsent =>
                IF k \in pd_acked THEN pd_data[k] = PdAbsent
                ELSE pd_data[k] = pd_orig[k]

\* the step on which caller t enters __get_post_res: it starts the timer
WaitStarts(t) == c_pc[t] = "w_start" /\ c_pc'[t] = "w_check"

(***************************************************************************)
(* C34: in AliYunIot the expiry of the shared timer during one wait never  *)
(* makes a later wait fail early: whenever a __get_post_res starts, the    *)
(* abort flag is 0 and no timer of an earlier wait is armed, in every      *)
(* interleaving of the timer callback, the reply delivery and the poll     *)
(* loop.                                                                   *)
(***************************************************************************)
C34_WaitStartsClean ==
    [][\A t \in Callers :
          WaitStarts(t) => (breack_flag = 0 /\ ~ali_timer)]_vars

(***************************************************************************)
(* C35: in AliYunIot.__ali_sub_cb, when the observers are notified of a    *)
(* new OTA plan, AliOTA already holds that plan's image: an observer that  *)
(* calls ota_action(1, module) from inside the notification starts the     *)
(* transfer of the announced module, version and files, not of a previous  *)
(* or empty image.                                                         *)
(***************************************************************************)
C35_NotifiedPlanIsHeld ==
    ob_plan # NoPlan => ob_held = ob_plan

\* the step on which a transfer thread comes to be
ThreadStarts(t) == th_kind[t] = "none" /\ th_kind'[t] # "none"

\* a transfer thread is started only while an image with a module name and
\* at least one part is held
StartOnlyWithImage ==
    [][\A t \in OtaThreads :
          ThreadStarts(t) => (ota_module # "" /\ Len(ota_files) >= 1)]_vars

(***************************************************************************)
(* C36: AliOTA.start_ota starts a transfer only when a pending image with  *)
(* a non-empty module and at least one part is held (never before any      *)
(* announcement nor after a cancellation has cleared the image), and it    *)
(* returns True only if a transfer thread was actually started.            *)
(***************************************************************************)
C36_StartOnlyAnnouncedAndTrueOnlyIfStarted ==
    /\ StartOnlyWithImage
    /\ [](st_ret = "True" => st_started)

\* thread t is blocked in fota_res = self.__fota_queue.get()
FotaBlocked(t) == th_kind[t] = "fota" /\ th_pc[t] = "wait"

\* thread t has returned from __start_fota
FotaReturned(t) == th_kind[t] = "fota" /\ th_pc[t] = "done"

\* the step on which thread t enters __start_fota while no other firmware
\* transfer is under way
FotaStartsAlone(t) ==
    /\ th_kind[t] = "fota" /\ th_pc[t] = "begin" /\ th_pc'[t] # "begin"
    /\ \A u \in OtaThreads \ {t} : th_kind[u] = "fota" => ~Running(u)
    /\ dl_active = {}

(***************************************************************************)
(* C37: every firmware transfer started through AliOTA.__start_fota        *)
(* eventually terminates: once the download calls back with a final status *)
(* or the one-hour timer fires, a result is put on the queue and the       *)
(* blocked thread returns it; one result is consumed per transfer and none *)
(* is left in the queue for the next transfer.                             *)
(***************************************************************************)
C37_FotaTerminates ==
    /\ \A t \in OtaThreads : FotaBlocked(t) ~> (FotaReturned(t) \/ restarted)
    /\ [][\A t \in OtaThreads : FotaStartsAlone(t) => fota_queue = <<>>]_vars

\* the two halves of C37 on their own
FotaBlockedReturns ==
    \A t \in OtaThreads : FotaBlocked(t) ~> (FotaReturned(t) \/ restarted)

FotaQueueLeftEmpty ==
    [][\A t \in OtaThreads : FotaStartsAlone(t) => fota_queue = <<>>]_vars

\* the step on which caller t leaves its wait with a result that a message
\* stored (not the False of the timer)
WaitResolved(t) ==
    /\ c_pc[t] = "w_fin" /\ c_pc'[t] # "w_fin"
    /\ post_res[CurId(t)].set
    /\ post_res[CurId(t)].by # TimerSrc

\* the cloud has not answered the request t waits for: no post_reply for
\* its id was delivered since it was published
Unanswered(t) == CurId(t) \in inflight

(***************************************************************************)
(* C38: in AliYunIot a pending locally issued id is resolved only by the   *)
(* reply to the request that was published with that id: an inbound        *)
(* message that is not such a reply, in particular a cloud-initiated OTA   *)
(* upgrade announcement whose id field equals a pending local id, never    *)
(* resolves a property/event post, a progress report or a firmware-get     *)
(* request.                                                                *)
(***************************************************************************)
C38_ResolvedOnlyByReply ==
    [][\A t \in Callers : WaitResolved(t) => ~Unanswered(t)]_vars

\* the keys of the record posted as events
PostedEvents == Range(EventParams(f_data))

(***************************************************************************)
(* C39: in AliYunIot.post_data the value the caller supplies for a         *)
(* declared event is carried in the published event-post message: the      *)
(* message's params value equals the record's value for that event, as     *)
(* property values are carried in the property-post message.               *)
(***************************************************************************)
C39_EventValueCarried ==
    f_pc = "done" => \A k \in PostedEvents : f_value[k] = f_vals[k]

\* the property half: the "value" of a property is the record's value
PropertyValueCarried ==
    f_pc = "done" => \A k \in Range(PropertyParams(f_data)) : f_value[k] = f_vals[k]

(***************************************************************************)
(* C4: for N threads calling __get_id concurrently, in any interleaving,   *)
(* the N returned ids are pairwise distinct.                               *)
(***************************************************************************)
C4_ConcurrentIdsDistinct ==
    \A t, u \in Threads :
        (t # u /\ id_pc[t] = "done" /\ id_pc[u] = "done") => id_ret[t] # id_ret[u]

\* all N concurrent calls have returned
C4_Witness == \A t \in Threads : id_pc[t] = "done" /\ id_ret[t] # NoId

(***************************************************************************)
(* C5: over successive calls of __get_id on one session, including calls   *)
(* made after the iterator is exhausted, every returned id is strictly     *)
(* greater than all ids returned before.                                   *)
(***************************************************************************)
C5_IdsStrictlyIncreasing ==
    \A i, j \in 1..Len(id_hist) : i < j => id_hist[i] < id_hist[j]

====
